---- MODULE Spec2Model ----
(***************************************************************************)
(* A model of the entity simulation of spaceship-alpha: the entity store   *)
(* with generational ids, the component storages, the Removal Queue        *)
(* (ToBeRemoved), the per-tick system pass (gameplay systems, physics,     *)
(* raycast refresh, model sync), the death-cleanup pass and maintenance.   *)
(*                                                                         *)
(* Geometry is abstracted to an integer grid: a position is a cell [x, y], *)
(* one physics step moves a body by its velocity (dt is one time unit),    *)
(* and two colliders touch when their cells are at most one apart.         *)
(***************************************************************************)
EXTENDS Integers, Sequences, FiniteSets, TLC

(* ------------------------------ bounds --------------------------------- *)
\* the number of entities created after construction (asteroids, missiles)
MaxCreated == 2
\* the asteroid field's x_range on the grid (gameplay.rs sets 30.0)
XRange == 1
\* the asteroid field's spawn_time in ticks (gameplay.rs sets 200)
SpawnTime == 4
\* Asteroid::HEALTH on the model's scale (objects.rs sets 180)
AsteroidHealth == 2
\* Miner::TOTAL_TIME on the model's scale (block.rs sets 120)
MinerTotalTime == 1
\* the bits of a u32 the model keeps
HealthBits == 4
\* the number of entities the build calls create on top of the first ship
MaxBuilt == 2
\* the longest batch of build actions
MaxBatch == 2
\* the rewards of an item in the inventory before the first build, if any
MaxRewards == 1
\* MAX_HEAT, scaled to the contacts the entities of the model can make
MaxHeat == 40

(* -------------------------- program constants -------------------------- *)
RAYCAST == 0
ASTEROID == 1
SHIP == 2
MISSLE == 3
HeatPerContact == 20
MinedReward == 5
LaserDamage == 1
GameItem == {"Iron", "Copper"}

(* ------------------------------ state ---------------------------------- *)
VARIABLES
    gens,            \* entity allocator: current generation of every id
    live,            \* entity allocator: the ids that are alive
    lazy,            \* LazyUpdate: queued builders of lazily created entities
    transforms,      \* storage Transform, the position: id -> [x, y]
    scales,          \* storage Transform, the scale: id -> scale
    bodies,          \* storage RigidBody: id -> [x, y] (velocity)
    colliders,       \* storage Collider: id -> [group, whitelist, raycast_id, model_id]
    models,          \* storage Model: id -> [mesh_id, model_id]
    blocks,          \* storage BlockEntity: id -> [ship, block_id, root]
    gadgets,         \* storage GadgetEntity: id -> [ship, block_id]
    asteroids,       \* storage Asteroid: id -> item
    missles,         \* storage MiningMissle: id -> [target]
    healths,         \* storage Health: id -> amount
    ships,           \* storage Ship: id -> [heat]
    miners,          \* storage Miner: id -> [shoot_time]
    lasers,          \* storage Laser: set of ids
    lines,           \* storage Line: set of ids
    field,           \* the AsteroidField component: [asteroids, tick]
    toBeRemoved,     \* resource ToBeRemoved: [vec, bitset]
    inventory,       \* resource Inventory: item -> amount
    raycastWorld,    \* resource RaycastWorld: set of [ent, group, pos]
    meshModels,      \* resource MeshManager: the live model instances
    insertedModels,  \* Model storage's event channel: ids inserted, unread
    inputAction,     \* resource InputAction: [kind, target]
    pc,              \* position in ECS::update
    done,            \* systems of the current dispatcher stage that have run
    contacts,        \* contact-started events of this tick's physics world
    cleanupLog,      \* remove calls made by this tick's death-cleanup pass
    deletedLog,      \* entities().delete calls made by this tick's drain
    minedLog,        \* inventory.add calls of the mined system, per asteroid
    call             \* the last call a driver made: its arguments and the
                     \* values it found

storages == <<transforms, scales, bodies, colliders, models, blocks, gadgets, asteroids,
              missles, healths, ships, miners, lasers, lines>>
vars == <<gens, live, lazy, storages, field, toBeRemoved, inventory,
          raycastWorld, meshModels, insertedModels, inputAction, pc, done,
          contacts, cleanupLog, deletedLog, minedLog, call>>

(* ------------------------------ helpers -------------------------------- *)
\* the ids of the entities of the first state, and all ids
StaticIds == {0, 1, 2, 3, 4}
Ids == 0 .. (Cardinality(StaticIds) + MaxCreated - 1)
\* Option<Entity>::None
NoEntity == <<0 - 1, 0>>
Range(s) == {s[i] : i \in DOMAIN s}
Put(f, k, v) == [i \in DOMAIN f \cup {k} |-> IF i = k THEN v ELSE f[i]]
Drop(f, S) == [i \in DOMAIN f \ S |-> f[i]]
Min(S) == CHOOSE m \in S : \A o \in S : m <= o
Abs(n) == IF n < 0 THEN 0 - n ELSE n
Sign(n) == IF n < 0 THEN 0 - 1 ELSE IF n > 0 THEN 1 ELSE 0
Pos(x, y) == [x |-> x, y |-> y]
EmptyFn == [i \in {} |-> 0]
\* a bag of calls: call -> number of times made
Count(log, c) == IF c \in DOMAIN log THEN log[c] ELSE 0
Logged(log, c) == Put(log, c, Count(log, c) + 1)
Unlogged(log, c) ==
    IF Count(log, c) <= 1 THEN Drop(log, {c}) ELSE Put(log, c, log[c] - 1)

\* Entities::is_alive
IsAlive(e) == e[1] \in live /\ gens[e[1]] = e[2]
\* the live entity that holds id i
EntityOf(i) == <<i, gens[i]>>
\* Storage::get / Storage::contains: the component of a live entity
Has(storage, e) == IsAlive(e) /\ e[1] \in DOMAIN storage


(* --------------------------- entity allocator -------------------------- *)
RECURSIVE Sum(_, _)
Sum(f, S) == IF S = {} THEN 0
             ELSE LET i == Min(S) IN f[i] + Sum(f, S \ {i})
\* the number of entities created after construction
Created(g) == Sum(g, Ids) - Cardinality(StaticIds)

\* EntitiesRes::create (atomic): a dead id is taken again with its next
\* generation. The model takes the lowest dead id, and creates MaxCreated
\* entities at most.
FreeIds(g, l) == IF Created(g) >= MaxCreated THEN {}
                 ELSE {i \in Ids : i \notin l}
NewEntity(g, l) == LET i == Min(FreeIds(g, l)) IN <<i, g[i] + 1>>
Raise(g, e) == [g EXCEPT ![e[1]] = e[2]]

(* ---------------------------- ToBeRemoved ------------------------------ *)
AddAlways(q, e) ==
    [vec |-> Append(q.vec, e), bitset |-> q.bitset \cup {e[1]}]

AddById(q, e) ==
    IF e[1] \in q.bitset THEN q
    ELSE [vec |-> Append(q.vec, e), bitset |-> q.bitset \cup {e[1]}]

\* ToBeRemoved::add
Add(q, e) ==
    IF e \in Range(q.vec) THEN q
    ELSE [vec |-> Append(q.vec, e), bitset |-> q.bitset \cup {e[1]}]

ClearBitsetOnly(q) ==
    [vec |-> IF q = <<>> THEN <<>> ELSE q.vec, bitset |-> {}]
ClearListOnly(q) ==
    [vec |-> <<>>, bitset |-> IF q = <<>> THEN {} ELSE q.bitset]
\* ToBeRemoved::clear
Clear(q) == [vec |-> <<>>, bitset |-> {}]

RECURSIVE AddAll(_, _)
\* add() for every entity of a sequence, in order
AddAll(q, es) ==
    IF es = <<>> THEN q ELSE AddAll(Add(q, Head(es)), Tail(es))

\* the ids of a set in ascending order (the order of a storage join)
RECURSIVE Ascending(_)
Ascending(S) ==
    IF S = {} THEN <<>> ELSE <<Min(S)>> \o Ascending(S \ {Min(S)})

(* ------------------------------ Health --------------------------------- *)
\* Health wraps a u32: the amounts a word of HealthBits bits holds
Word == 0 .. (2 ^ HealthBits - 1)
\* u32 subtraction (wrapping, as in a release build)
WrappingSub(a, b) == (a - b) % (2 ^ HealthBits)

DamageUnclamped(h, amount) == WrappingSub(h, amount)

\* Health::damage
Damage(h, amount) == WrappingSub(h, IF amount < h THEN amount ELSE h)

(* ----------------------------- components ------------------------------ *)
\* Transform::from_position: the scale 1.0, in units of 1 / (2 * HEALTH)
UnitScale == 2 * AsteroidHealth
NoHandle == 0 - 1
\* Collider::new
NewCollider(group, whitelist) ==
    [group |-> group, whitelist |-> whitelist,
     raycast_id |-> NoHandle, model_id |-> FALSE]
\* Model::new
NewModel(mesh_id) == [mesh_id |-> mesh_id, model_id |-> FALSE]
\* handles of the MeshManager's instances
ModelOf(i) == <<"model", i, gens[i]>>
HitboxOf(i) == <<"hitbox", i, gens[i]>>

\* no call made yet
NoCall == [op |-> "none"]

(* --------------------------- the first state --------------------------- *)
ShipEntity == <<0, 1>>
WallEntity == <<1, 1>>
MinerEntity == <<2, 1>>
LaserEntity == <<3, 1>>
FieldEntity == <<4, 1>>
WallPos == Pos(0, 0)
MinerPos == Pos(0, 1)
\* the y cells an asteroid may be spawned on
SpawnLanes == {0 - 1, 0, 3}

\* the cells of the ship's tile map, and a cell that is not in it
ShipCells == {WallPos, MinerPos, Pos(1, 0)}
OutsideCell == Pos(0, 32)
\* Tile: the entity of each slot, NoEntity for None
EmptyTile == [block |-> NoEntity, gadget |-> NoEntity, floor |-> NoEntity]

\* a queued LazyBuilder; what is the item of an asteroid, the block id of a
\* block or gadget, "metal" for a floor
LazyAsteroid(e, pos, item) ==
    [ent |-> e, kind |-> "asteroid", pos |-> pos, what |-> item,
     target |-> NoEntity]
LazyMissle(e, pos, target) ==
    [ent |-> e, kind |-> "missle", pos |-> pos, what |-> "missle",
     target |-> target]
LazyGadget(e, pos, block_id) ==
    [ent |-> e, kind |-> "gadget", pos |-> pos, what |-> block_id,
     target |-> NoEntity]
LazyBlock(e, pos, block_id) ==
    [ent |-> e, kind |-> "block", pos |-> pos, what |-> block_id,
     target |-> NoEntity]
LazyFloor(e, pos, floor) ==
    [ent |-> e, kind |-> "floor", pos |-> pos, what |-> floor,
     target |-> NoEntity]

\* ECS::new: the ship with a wall and a miner block built and flushed, a
\* laser gadget built lazily on the wall, and the asteroid field; all but
\* the Health storage, the Inventory and the driver's call.
InitWorld ==
    /\ gens = [i \in Ids |-> IF i \in StaticIds THEN 1 ELSE 0]
    /\ live = StaticIds
    /\ lazy = <<LazyGadget(LaserEntity, WallPos, "laser")>>
    /\ transforms = (1 :> WallPos) @@ (2 :> MinerPos)
    /\ scales = (1 :> UnitScale) @@ (2 :> UnitScale)
    /\ bodies = EmptyFn
    /\ colliders = (1 :> NewCollider(SHIP, {ASTEROID}))
                   @@ (2 :> NewCollider(SHIP, {ASTEROID}))
    /\ models = (1 :> NewModel("wall")) @@ (2 :> NewModel("miner"))
    /\ blocks = (1 :> [ship |-> ShipEntity, block_id |-> "wall",
                        root |-> WallPos])
                @@ (2 :> [ship |-> ShipEntity, block_id |-> "miner",
                           root |-> MinerPos])
    /\ gadgets = EmptyFn
    /\ asteroids = EmptyFn
    /\ missles = EmptyFn
    /\ ships = (0 :> [heat |-> 0,
                       tiles |-> [c \in ShipCells |->
                          IF c = WallPos
                          THEN [EmptyTile EXCEPT !.block = WallEntity,
                                                 !.gadget = LaserEntity]
                          ELSE IF c = MinerPos
                          THEN [EmptyTile EXCEPT !.block = MinerEntity]
                          ELSE EmptyTile]])
    /\ miners = (2 :> [shoot_time |-> 0])
    /\ lasers = {}
    /\ lines = {}
    /\ field = [asteroids |-> <<>>, tick |-> 0]
    /\ toBeRemoved = Clear(<<>>)
    /\ raycastWorld = EmptyFn
    /\ meshModels = EmptyFn
    /\ insertedModels = {1, 2}
    /\ inputAction = [kind |-> "None", target |-> NoEntity]
    /\ contacts = <<>>
    /\ cleanupLog = EmptyFn
    /\ deletedLog = EmptyFn
    /\ minedLog = EmptyFn

\* Inventory::new
NewInventory == [item \in GameItem |-> 0]

Init ==
    /\ InitWorld
    /\ healths = EmptyFn
    /\ inventory = NewInventory
    /\ call = NoCall
    /\ pc = "gameplay"
    /\ done = {}

(* --------------------------- collision groups -------------------------- *)
\* CollisionGroups: membership and whitelist (no blacklist is ever set)
AllGroups == {RAYCAST, ASTEROID, SHIP, MISSLE}
GroupsAnything(a, b) == TRUE

\* CollisionGroups::can_interact_with_groups, the pair filter of a world
CanInteract(a, b) ==
    /\ a.membership \cap b.whitelist # {}
    /\ b.membership \cap a.whitelist # {}

\* the groups a collider is registered with in the per-tick physics world
PhysicsGroups(c) == [membership |-> {c.group}, whitelist |-> c.whitelist]
\* the groups a collider is registered with in the Raycast World
RaycastGroups(c) == [membership |-> {c.group}, whitelist |-> {RAYCAST}]
QueryGroupsAll(whitelist) ==
    [membership |-> AllGroups, whitelist |-> AllGroups]

\* the groups of a ray query
QueryGroups(whitelist) ==
    [membership |-> AllGroups,
     whitelist |-> IF whitelist = {} THEN AllGroups ELSE whitelist]

AfterRaycastTakes(w) ==
    [h \in DOMAIN w \ {Min(DOMAIN w \cup {Cardinality(Ids)})} |-> w[h]]

\* RaycastWorld::raycast takes &self: the world a query leaves behind
AfterRaycast(w) == w

\* RaycastWorld::raycast: nothing, or a registered object the query's groups
\* admit (which one is first along the ray depends on the ray)
RaycastResults(whitelist) ==
    {NoEntity} \cup
    {raycastWorld[h].ent : h \in
        {k \in DOMAIN raycastWorld :
            CanInteract(QueryGroups(whitelist), raycastWorld[k].groups)}}

\* RaycastWorld::raycast along a ray, given as the cells it crosses in
\* order: the objects the query's groups admit in the first cell that holds
\* one (first_interference_with_ray returns one of them), or nothing
RaycastAlong(w, whitelist, ray) ==
    LET admitted == {h \in DOMAIN w :
                       CanInteract(QueryGroups(whitelist), w[h].groups)}
        hits == [k \in DOMAIN ray |-> {h \in admitted : w[h].pos = ray[k]}]
        first == {k \in DOMAIN ray :
                    hits[k] # {} /\ \A j \in 1 .. (k - 1) : hits[j] = {}}
    IN IF first = {} THEN {NoEntity}
       ELSE {w[h].ent : h \in UNION {hits[k] : k \in first}}

(* ----------------------------- dispatcher ------------------------------ *)
\* the gameplay stage; its systems conflict on Transform, Health and
\* ToBeRemoved, so the dispatcher runs them in the order they were added
GameplaySystems ==
    <<"miner", "laser", "missle", "health", "shrink", "field">>
\* the death dispatcher
DeathSystems == <<"mined", "model", "raycast">>

NoBarrier(order) == TRUE
\* add_barrier / the end of a dispatch: every system of the stage has run
Barrier(order) == done = Range(order)

\* system s of stage order is the next one to run
IsNext(order, s) ==
    \E k \in DOMAIN order :
        /\ order[k] = s
        /\ done = {order[j] : j \in 1 .. (k - 1)}

world == <<gens, live, lazy, storages, field, toBeRemoved, inventory,
           raycastWorld, meshModels, insertedModels, inputAction,
           contacts, cleanupLog, deletedLog, minedLog, call>>

\* an unwrap()/expect() that fails
Panic == pc' = "panic" /\ UNCHANGED <<world, done>>

(* ------------------------------ MinerSystem ---------------------------- *)
FiresAtTotal(shoot_time) == shoot_time >= MinerTotalTime

\* the test of MinerSystem::run: the cooldown has elapsed
Fires(shoot_time) == shoot_time > MinerTotalTime

RECURSIVE MinerRun(_, _)
\* the loop of MinerSystem::run over the miners ids (ascending), on the
\* accumulated [gens, live, lazy, miners, ok]
MinerRun(ids, acc) ==
    IF ids = <<>> THEN acc
    ELSE LET i == Head(ids)
             fire == Fires(acc.miners[i].shoot_time)
             e == NewEntity(acc.gens, acc.live)
         IN IF fire /\ inputAction.kind = "Mining"
            THEN IF FreeIds(acc.gens, acc.live) = {}
                 THEN [acc EXCEPT !.ok = FALSE]
                 ELSE MinerRun(Tail(ids),
                        [acc EXCEPT
                           !.gens = Raise(acc.gens, e),
                           !.live = acc.live \cup {e[1]},
                           !.lazy = Append(acc.lazy,
                               LazyMissle(e, transforms[i], inputAction.target)),
                           !.miners[i].shoot_time = 0])
            ELSE IF fire THEN MinerRun(Tail(ids), acc)
            ELSE MinerRun(Tail(ids),
                    [acc EXCEPT !.miners[i].shoot_time = @ + 1])

MinerSystem ==
    /\ pc = "gameplay" /\ IsNext(GameplaySystems, "miner")
    /\ LET r == MinerRun(Ascending(DOMAIN transforms \cap DOMAIN miners),
                    [gens |-> gens, live |-> live, lazy |-> lazy,
                     miners |-> miners, ok |-> TRUE])
       IN /\ r.ok
          /\ gens' = r.gens /\ live' = r.live /\ lazy' = r.lazy
          /\ miners' = r.miners
    /\ done' = done \cup {"miner"}
    /\ UNCHANGED <<transforms, scales, bodies, colliders, models, blocks, gadgets, asteroids,
                   missles, healths, ships, lasers, lines, field,
                   toBeRemoved, inventory, raycastWorld, meshModels,
                   insertedModels, inputAction, pc, contacts, cleanupLog,
                   deletedLog, minedLog, call>>

(* ------------------------------ LaserSystem ---------------------------- *)
\* the laser entities: (&entities, &lasers).join()
LaserIds == {i \in lasers : i \in live}

SeesSomething(raycast, target) == raycast # NoEntity
\* Some(target) == raycast
Sees(raycast, target) == raycast = target

\* the raycasts the lasers may get back: one per laser while the action is
\* Laser, none otherwise
LaserRaycasts ==
    IF inputAction.kind = "Laser" THEN [LaserIds -> RaycastResults({})]
    ELSE {[i \in LaserIds |-> NoEntity]}

RECURSIVE LaserRun(_, _, _)
\* the loop of LaserSystem::run with the raycast results hit, on the
\* accumulated [lines, healths]
LaserRun(ids, hit, acc) ==
    IF ids = <<>> THEN acc
    ELSE LET i == Head(ids)
             target == inputAction.target
         IN IF inputAction.kind = "Laser" /\ Sees(hit[i], target)
            THEN LaserRun(Tail(ids), hit,
                   [lines |-> acc.lines \cup {i},
                    healths |->
                      IF Has(acc.healths, target)
                      THEN [acc.healths EXCEPT
                              ![target[1]] = Damage(@, LaserDamage)]
                      ELSE acc.healths])
            ELSE LaserRun(Tail(ids), hit,
                   [acc EXCEPT !.lines = acc.lines \ {i}])

LaserSystem ==
    /\ pc = "gameplay" /\ IsNext(GameplaySystems, "laser")
    /\ IF /\ LaserIds # {}
          /\ inputAction.kind = "Laser"
          /\ ~Has(transforms, inputAction.target)
       THEN Panic
       ELSE /\ \E hit \in LaserRaycasts :
                 LET r == LaserRun(Ascending(LaserIds), hit,
                              [lines |-> lines, healths |-> healths])
                 IN /\ lines' = r.lines /\ healths' = r.healths
                    /\ call' = [op |-> "laser", hit |-> hit]
            /\ done' = done \cup {"laser"}
            /\ UNCHANGED <<gens, live, lazy, transforms, scales, bodies, colliders,
                           models, blocks, gadgets, asteroids, missles, ships,
                           miners, lasers, field, toBeRemoved, inventory,
                           meshModels, insertedModels,
                           inputAction, pc, contacts, cleanupLog, deletedLog,
                           minedLog>>
            /\ raycastWorld' = AfterRaycast(raycastWorld)

(* -------------------------- MiningMissleSystem ------------------------- *)
\* the missile entities: (&entities, &missles).join()
MissleIds == {i \in DOMAIN missles : i \in live}

\* the velocity of a missile at from toward a target at to (the flat,
\* final phase of the flight: the launch along z is left out)
Homing(from, to) == Pos(Sign(to.x - from.x), Sign(to.y - from.y))

TargetNeverDied(target) == FALSE
\* !entities.is_alive(missle.target)
TargetDied(target) == ~IsAlive(target)

RECURSIVE MissleRun(_, _)
\* the loop of MiningMissleSystem::run, on [queue, bodies]
MissleRun(ids, acc) ==
    IF ids = <<>> THEN acc
    ELSE LET i == Head(ids)
             target == missles[i].target
         IN IF TargetDied(target)
            THEN MissleRun(Tail(ids),
                    [acc EXCEPT !.queue = Add(acc.queue, EntityOf(i))])
            ELSE MissleRun(Tail(ids),
                    [acc EXCEPT !.bodies[i] =
                        Homing(transforms[i], transforms[target[1]])])

MiningMissleSystem ==
    /\ pc = "gameplay" /\ IsNext(GameplaySystems, "missle")
    /\ IF \E i \in MissleIds :
            /\ ~TargetDied(missles[i].target)
            /\ \/ i \notin DOMAIN transforms
               \/ ~Has(transforms, missles[i].target)
               \/ i \notin DOMAIN bodies
       THEN Panic
       ELSE /\ LET r == MissleRun(Ascending(MissleIds),
                            [queue |-> toBeRemoved, bodies |-> bodies])
               IN toBeRemoved' = r.queue /\ bodies' = r.bodies
            /\ done' = done \cup {"missle"}
            /\ UNCHANGED <<gens, live, lazy, transforms, scales, colliders, models,
                           blocks, gadgets, asteroids, missles, healths, ships, miners,
                           lasers, lines, field, inventory, raycastWorld,
                           meshModels, insertedModels, inputAction, pc,
                           contacts, cleanupLog, deletedLog, minedLog, call>>

(* -------------------------- NoMoreHealthSystem ------------------------- *)
NoHealthNever(amount) == FALSE

\* the test of NoMoreHealthSystem::run
NoHealth(amount) == amount = 0

\* the loop of NoMoreHealthSystem::run over the healths h, on the queue q
NoHealthRun(q, h) ==
    LET dead == Ascending({i \in DOMAIN h : i \in live /\ NoHealth(h[i])})
    IN AddAll(q, [k \in DOMAIN dead |-> EntityOf(dead[k])])

NoMoreHealthSystem ==
    /\ pc = "gameplay" /\ IsNext(GameplaySystems, "health")
    /\ toBeRemoved' = NoHealthRun(toBeRemoved, healths)
    /\ done' = done \cup {"health"}
    /\ UNCHANGED <<gens, live, lazy, storages, field, inventory, raycastWorld,
                   meshModels, insertedModels, inputAction, pc, contacts,
                   cleanupLog, deletedLog, minedLog, call>>

(* ------------------------- AsteroidShrinkSystem ------------------------ *)
\* 0.5 + (health / HEALTH) / 2, in units of 1 / (2 * HEALTH)
Scale(amount) == AsteroidHealth + amount

\* the loop of AsteroidShrinkSystem::run over the healths h, on the scales
ShrinkRun(sc, h) ==
    [i \in DOMAIN sc |->
        IF i \in DOMAIN asteroids /\ i \in DOMAIN h THEN Scale(h[i])
        ELSE sc[i]]

AsteroidShrinkSystem ==
    /\ pc = "gameplay" /\ IsNext(GameplaySystems, "shrink")
    /\ scales' = ShrinkRun(scales, healths)
    /\ done' = done \cup {"shrink"}
    /\ UNCHANGED <<gens, live, lazy, transforms, bodies, colliders, models,
                   blocks, gadgets, asteroids, missles, healths, ships,
                   miners, lasers, lines, field, toBeRemoved, inventory,
                   raycastWorld, meshModels, insertedModels, inputAction, pc,
                   contacts, cleanupLog, deletedLog, minedLog, call>>

(* -------------------------- AsteroidFieldSystem ------------------------ *)
OutOfRangeAtEdge(pos) == Abs(pos.x) >= XRange

\* filter: the asteroid has left the field's range
OutOfRange(pos) == Abs(pos.x) > XRange

SelectAlive(es) == SelectSeq(es, LAMBDA e : IsAlive(e))
SelectOut(es) == SelectSeq(es, LAMBDA e : OutOfRange(transforms[e[1]]))

\* what the random number generator may hand the field system
Spawns == [item : GameItem, lane : SpawnLanes]

FieldRunSkipsQueued(acc, spawn) ==
    LET roster == SelectSeq(SelectAlive(acc.field.asteroids),
                            LAMBDA a : a \notin Range(acc.queue.vec))
        queued == AddAll(acc.queue, SelectOut(roster))
        e == NewEntity(acc.gens, acc.live)
    IN IF acc.field.tick > 0
       THEN [acc EXCEPT !.queue = queued,
                        !.field = [asteroids |-> roster,
                                   tick |-> acc.field.tick - 1]]
       ELSE IF FreeIds(acc.gens, acc.live) = {}
       THEN [acc EXCEPT !.ok = FALSE]
       ELSE [acc EXCEPT
               !.queue = queued,
               !.gens = Raise(acc.gens, e),
               !.live = acc.live \cup {e[1]},
               !.lazy = Append(acc.lazy,
                   LazyAsteroid(e, Pos(0 - XRange, spawn.lane), spawn.item)),
               !.field = [asteroids |-> Append(roster, e),
                          tick |-> SpawnTime]]
\* the body of AsteroidFieldSystem::run for the one field, with the random
\* draws spawn, on [gens, live, lazy, field, queue, ok]
FieldRun(acc, spawn) ==
    LET roster == SelectAlive(acc.field.asteroids)
        queued == AddAll(acc.queue, SelectOut(roster))
        e == NewEntity(acc.gens, acc.live)
    IN IF acc.field.tick > 0
       THEN [acc EXCEPT !.queue = queued,
                        !.field = [asteroids |-> roster,
                                   tick |-> acc.field.tick - 1]]
       ELSE IF FreeIds(acc.gens, acc.live) = {}
       THEN [acc EXCEPT !.ok = FALSE]
       ELSE [acc EXCEPT
               !.queue = queued,
               !.gens = Raise(acc.gens, e),
               !.live = acc.live \cup {e[1]},
               !.lazy = Append(acc.lazy,
                   LazyAsteroid(e, Pos(0 - XRange, spawn.lane), spawn.item)),
               !.field = [asteroids |-> Append(roster, e),
                          tick |-> SpawnTime]]

AsteroidFieldSystem ==
    /\ pc = "gameplay" /\ IsNext(GameplaySystems, "field")
    /\ IF \E e \in Range(SelectAlive(field.asteroids)) : ~Has(transforms, e)
       THEN Panic
       ELSE /\ \E spawn \in Spawns :
                 LET r == FieldRun([gens |-> gens, live |-> live,
                                    lazy |-> lazy, field |-> field,
                                    queue |-> toBeRemoved, ok |-> TRUE],
                                   spawn)
                 IN /\ r.ok
                    /\ gens' = r.gens /\ live' = r.live /\ lazy' = r.lazy
                    /\ field' = r.field /\ toBeRemoved' = r.queue
            /\ done' = done \cup {"field"}
            /\ UNCHANGED <<storages, inventory, raycastWorld, meshModels,
                           insertedModels, inputAction, pc, contacts,
                           cleanupLog, deletedLog, minedLog, call>>

(* ------------------------------ PhysicsSystem -------------------------- *)
\* transform.position += body.velocity * dt
Integrate(pos, vel) == Pos(pos.x + vel.x, pos.y + vel.y)

\* "Update Rigid Bodies": the transforms after the integration
Integrated ==
    [i \in DOMAIN transforms |->
        IF i \in DOMAIN bodies THEN Integrate(transforms[i], bodies[i])
        ELSE transforms[i]]

PosesBefore == transforms

\* "Setup Collision" reads the transforms the integration loop has written
Poses == Integrated

\* two shapes placed at p and q are in contact (exact overlap included)
Touch(p, q) == Abs(p.x - q.x) <= 1 /\ Abs(p.y - q.y) <= 1

\* "Setup Collision": the entities registered in the tick's CollisionWorld
Registered == {i \in live : i \in DOMAIN transforms /\ i \in DOMAIN colliders}

\* world.update(): the pairs of registered objects that the pair filter
\* admits and that are in contact at the poses tr
ContactPairs(tr) ==
    {pair \in SUBSET Registered :
        /\ Cardinality(pair) = 2
        /\ \A a, b \in pair : a # b =>
              /\ CanInteract(PhysicsGroups(colliders[a]),
                             PhysicsGroups(colliders[b]))
              /\ Touch(tr[a], tr[b])}

RECURSIVE EventOrders(_)
\* world.contact_events(): one Started(h1, h2) per pair; neither the order
\* of the events nor which object comes first is fixed by the program
EventOrders(pairs) ==
    IF pairs = {} THEN {<<>>}
    ELSE UNION {
           {<<<<EntityOf(a), EntityOf(b)>>>> \o rest :
                rest \in EventOrders(pairs \ {{a, b}})} :
           <<a, b>> \in {ab \in Registered \X Registered :
                          {ab[1], ab[2]} \in pairs /\ ab[1] # ab[2]}}

\* has_component
HasComponent(e1, e2, storage) == Has(storage, e1) \/ Has(storage, e2)

BlockContactClamped(acc, e1, e2) ==
    LET queued == IF Has(asteroids, e1) THEN Add(acc.queue, e1)
                  ELSE IF Has(asteroids, e2) THEN Add(acc.queue, e2)
                  ELSE acc.queue
        block_entity == IF Has(blocks, e1) THEN e1 ELSE e2
        ship_entity == blocks[block_entity[1]].ship
    IN [queue |-> queued,
        ships |-> [acc.ships EXCEPT
                     ![ship_entity[1]].heat =
                        IF @ + HeatPerContact > MaxHeat THEN MaxHeat
                        ELSE @ + HeatPerContact]]

BlockContactNoQueue(acc, e1, e2) ==
    LET block_entity == IF Has(blocks, e1) THEN e1 ELSE e2
        ship_entity == blocks[block_entity[1]].ship
    IN [acc EXCEPT !.ships[ship_entity[1]].heat = @ + HeatPerContact]

\* "Process Collisions", first test: a block took part in the contact
BlockContact(acc, e1, e2) ==
    LET queued == IF Has(asteroids, e1) THEN Add(acc.queue, e1)
                  ELSE IF Has(asteroids, e2) THEN Add(acc.queue, e2)
                  ELSE acc.queue
        block_entity == IF Has(blocks, e1) THEN e1 ELSE e2
        ship_entity == blocks[block_entity[1]].ship
    IN [queue |-> queued,
        ships |-> [acc.ships EXCEPT
                     ![ship_entity[1]].heat = @ + HeatPerContact]]

MissleContactOne(acc, e1, e2) == [acc EXCEPT !.queue = Add(acc.queue, e1)]

\* "Process Collisions", second test: a missile hit an asteroid
MissleContact(acc, e1, e2) ==
    [acc EXCEPT !.queue = Add(Add(acc.queue, e1), e2)]

RECURSIVE ProcessContactsShipGroup(_, _)
ProcessContactsShipGroup(events, acc) ==
    IF events = <<>> THEN acc
    ELSE LET e1 == Head(events)[1]
             e2 == Head(events)[2]
             g == IF Has(gadgets, e1) THEN e1 ELSE e2
             a == IF Has(asteroids, e1) THEN e1 ELSE e2
             a0 == IF /\ HasComponent(e1, e2, gadgets)
                      /\ HasComponent(e1, e2, asteroids)
                   THEN [queue |-> Add(acc.queue, a),
                         ships |-> [acc.ships EXCEPT
                                      ![gadgets[g[1]].ship[1]].heat =
                                         @ + HeatPerContact]]
                   ELSE acc
             a1 == IF HasComponent(e1, e2, blocks)
                   THEN BlockContact(a0, e1, e2) ELSE a0
             a2 == IF /\ HasComponent(e1, e2, missles)
                      /\ HasComponent(e1, e2, asteroids)
                   THEN MissleContact(a1, e1, e2) ELSE a1
         IN ProcessContactsShipGroup(Tail(events), a2)

RECURSIVE ProcessContacts(_, _)
\* the loop over world.contact_events(), on [queue, ships]
ProcessContacts(events, acc) ==
    IF events = <<>> THEN acc
    ELSE LET e1 == Head(events)[1]
             e2 == Head(events)[2]
             a1 == IF HasComponent(e1, e2, blocks)
                   THEN BlockContact(acc, e1, e2) ELSE acc
             a2 == IF /\ HasComponent(e1, e2, missles)
                      /\ HasComponent(e1, e2, asteroids)
                   THEN MissleContact(a1, e1, e2) ELSE a1
         IN ProcessContacts(Tail(events), a2)

PhysicsSystem ==
    /\ pc = "gameplay" /\ Barrier(GameplaySystems)
    /\ transforms' = Integrated
    /\ scales' = scales
    /\ \E events \in EventOrders(ContactPairs(Poses)) :
         /\ contacts' = events
         /\ IF \E k \in DOMAIN events :
                 /\ HasComponent(events[k][1], events[k][2], blocks)
                 /\ LET b == IF Has(blocks, events[k][1])
                             THEN events[k][1] ELSE events[k][2]
                    IN ~Has(ships, blocks[b[1]].ship)
            THEN /\ pc' = "panic"
                 /\ UNCHANGED <<toBeRemoved, ships>>
            ELSE /\ LET r == ProcessContacts(events,
                                [queue |-> toBeRemoved, ships |-> ships])
                    IN toBeRemoved' = r.queue /\ ships' = r.ships
                 /\ pc' = "raycast"
    /\ UNCHANGED <<gens, live, lazy, bodies, colliders, models, blocks, gadgets,
                   asteroids, missles, healths, miners, lasers, lines, field,
                   inventory, raycastWorld, meshModels, insertedModels,
                   inputAction, done, cleanupLog, deletedLog, minedLog, call>>

(* ------------------------------ RaycastSystem -------------------------- *)
\* the slab key CollisionWorld::add hands out
NewHandle(w) == Min({h \in 0 .. Cardinality(Ids) : h \notin DOMAIN w})

RaycastIdsRegistered ==
    {i \in live : /\ i \in DOMAIN transforms /\ i \in DOMAIN colliders
                  /\ colliders[i].raycast_id # NoHandle}

\* the colliders the refresh visits: (&entities, &transforms, &mut colliders)
RaycastIds == {i \in live : i \in DOMAIN transforms /\ i \in DOMAIN colliders}

IsRegisteredNever(c) == FALSE

\* the test of RaycastSystem::run: the collider is already registered
IsRegistered(c) == c.raycast_id # NoHandle /\ c.model_id

SetPositionLost(w, h, pos) == w

\* collider_object.set_position, effective at the world.update() that ends
\* the refresh
SetPosition(w, h, pos) == [w EXCEPT ![h].pos = pos]

RECURSIVE RaycastRun(_, _)
\* the loop of RaycastSystem::run, on [world, colliders, meshes, ok]
RaycastRun(ids, acc) ==
    IF ids = <<>> THEN acc
    ELSE LET i == Head(ids)
             c == acc.colliders[i]
             entry == [ent |-> EntityOf(i), groups |-> RaycastGroups(c),
                       pos |-> transforms[i]]
             h == NewHandle(acc.world)
         IN IF IsRegistered(c)
            THEN IF \/ c.raycast_id \notin DOMAIN acc.world
                    \/ Count(acc.meshes, HitboxOf(i)) = 0
                 THEN [acc EXCEPT !.ok = FALSE]
                 ELSE RaycastRun(Tail(ids),
                        [acc EXCEPT !.world = SetPosition(acc.world,
                                                c.raycast_id, transforms[i])])
            ELSE RaycastRun(Tail(ids),
                   [acc EXCEPT
                      !.world = Put(acc.world, h, entry),
                      !.colliders[i].raycast_id = h,
                      !.colliders[i].model_id = TRUE,
                      !.meshes = Logged(acc.meshes, HitboxOf(i))])

RaycastSystem ==
    /\ pc = "raycast"
    /\ LET r == RaycastRun(Ascending(RaycastIds),
                    [world |-> raycastWorld, colliders |-> colliders,
                     meshes |-> meshModels, ok |-> TRUE])
       IN IF r.ok
          THEN /\ raycastWorld' = r.world
               /\ colliders' = r.colliders
               /\ meshModels' = r.meshes
               /\ pc' = "models"
          ELSE /\ pc' = "panic"
               /\ UNCHANGED <<raycastWorld, colliders, meshModels>>
    /\ UNCHANGED <<gens, live, lazy, transforms, scales, bodies, models, blocks, gadgets,
                   asteroids, missles, healths, ships, miners, lasers, lines,
                   field, toBeRemoved, inventory, insertedModels, inputAction,
                   done, contacts, cleanupLog, deletedLog, minedLog, call>>

(* ---------------------------- ModelUpdateSystem ------------------------ *)
\* the Modified events of the Transform storage since the last run: the
\* transforms the systems of the tick took mutably (the miner, the laser
\* while it has a target, the asteroid shrink and the integration)
ModifiedTransforms ==
    DOMAIN transforms \cap
      (DOMAIN miners
         \cup (IF inputAction.kind = "Laser" THEN lasers ELSE {})
         \cup (DOMAIN asteroids \cap DOMAIN healths)
         \cup DOMAIN bodies)

\* the first loop of ModelUpdateSystem::run: every model whose insertion
\* the event channel reports gets an instance
InsertedModels == DOMAIN models \cap DOMAIN transforms \cap insertedModels

\* the models after the first loop
GivenModels ==
    [i \in DOMAIN models |->
        IF i \in InsertedModels THEN [models[i] EXCEPT !.model_id = TRUE]
        ELSE models[i]]

\* the second loop of ModelUpdateSystem::run: update_model is called for
\* every modified transform whose model has an instance handle
UpdatedModels == {i \in ModifiedTransforms \cap DOMAIN models :
                     GivenModels[i].model_id}

ModelUpdateSystem ==
    /\ pc = "models"
    /\ LET meshes ==
              [h \in DOMAIN meshModels
                       \cup {ModelOf(i) : i \in InsertedModels} |->
                  Count(meshModels, h)
                  + (IF \E i \in InsertedModels : h = ModelOf(i)
                     THEN 1 ELSE 0)]
       IN IF \E i \in UpdatedModels : Count(meshes, ModelOf(i)) = 0
          THEN Panic
          ELSE /\ models' = GivenModels
               /\ meshModels' = meshes
               /\ insertedModels' = {}
               /\ pc' = "death"
               /\ done' = {}
               /\ UNCHANGED <<gens, live, lazy, transforms, scales, bodies,
                              colliders, blocks, gadgets, asteroids, missles,
                              healths, ships, miners, lasers, lines, field,
                              toBeRemoved, inventory, raycastWorld,
                              inputAction, contacts, cleanupLog, deletedLog,
                              minedLog, call>>

(* --------------------------- death dispatcher -------------------------- *)
MinedAlways(amount) == TRUE

\* the test of AsteroidMinedSystem::run: it was mined, not just removed
WasMined(amount) == amount = 0

RECURSIVE MinedRun(_, _)
\* the loop of AsteroidMinedSystem::run over the joined ids, on
\* [inventory, log]
MinedRun(ids, acc) ==
    IF ids = <<>> THEN acc
    ELSE LET i == Head(ids)
         IN MinedRun(Tail(ids),
               IF WasMined(healths[i])
               THEN [inventory |->
                        [acc.inventory EXCEPT ![asteroids[i]] = @ + MinedReward],
                     log |-> Logged(acc.log, EntityOf(i))]
               ELSE acc)

AsteroidMinedSystem ==
    /\ pc = "death" /\ IsNext(DeathSystems, "mined")
    /\ LET r == MinedRun(Ascending(toBeRemoved.bitset \cap DOMAIN asteroids
                                   \cap DOMAIN healths),
                         [inventory |-> inventory, log |-> minedLog])
       IN inventory' = r.inventory /\ minedLog' = r.log
    /\ done' = done \cup {"mined"}
    /\ UNCHANGED <<gens, live, lazy, storages, field, toBeRemoved,
                   raycastWorld, meshModels, insertedModels, inputAction, pc,
                   contacts, cleanupLog, deletedLog, call>>

DyingModelsNone == {}

\* the models RemoveModelSystem::run tears down
DyingModels ==
    {i \in DOMAIN models \cap toBeRemoved.bitset : models[i].model_id}

RemoveModelSystem ==
    /\ pc = "death" /\ IsNext(DeathSystems, "model")
    /\ IF \E i \in DyingModels : Count(meshModels, ModelOf(i)) = 0
       THEN Panic
       ELSE /\ models' = [i \in DOMAIN models |->
                            IF i \in DyingModels
                            THEN [models[i] EXCEPT !.model_id = FALSE]
                            ELSE models[i]]
            /\ meshModels' =
                 LET left == [h \in DOMAIN meshModels |->
                                meshModels[h]
                                - (IF \E i \in DyingModels : h = ModelOf(i)
                                   THEN 1 ELSE 0)]
                 IN [h \in {k \in DOMAIN left : left[k] > 0} |-> left[h]]
            /\ cleanupLog' =
                 [c \in DOMAIN cleanupLog
                        \cup {<<"model", EntityOf(i)>> : i \in DyingModels} |->
                    Count(cleanupLog, c)
                    + (IF \E i \in DyingModels : c = <<"model", EntityOf(i)>>
                       THEN 1 ELSE 0)]
            /\ done' = done \cup {"model"}
            /\ UNCHANGED <<gens, live, lazy, transforms, scales, bodies, colliders,
                           blocks, gadgets, asteroids, missles, healths, ships, miners,
                           lasers, lines, field, toBeRemoved, inventory,
                           raycastWorld, insertedModels, inputAction, pc,
                           contacts, deletedLog, minedLog, call>>

RemoveRaycastRunHandlesOnly(ids, acc) ==
    [acc EXCEPT !.colliders =
        [i \in DOMAIN acc.colliders |->
            IF i \in Range(ids)
            THEN [acc.colliders[i] EXCEPT !.raycast_id = NoHandle,
                                          !.model_id = FALSE]
            ELSE acc.colliders[i]]]

RECURSIVE RemoveRaycastRun(_, _)
\* the loop of RemoveRaycastColliderSystem::run, on
\* [world, colliders, meshes, log, ok]
RemoveRaycastRun(ids, acc) ==
    IF ids = <<>> THEN acc
    ELSE LET i == Head(ids)
             c == acc.colliders[i]
             a1 == IF c.raycast_id # NoHandle
                   THEN [acc EXCEPT
                           !.world = Drop(acc.world, {c.raycast_id}),
                           !.colliders[i].raycast_id = NoHandle,
                           !.log = Logged(acc.log, <<"raycast", EntityOf(i)>>)]
                   ELSE acc
             a2 == IF c.model_id
                   THEN [a1 EXCEPT
                           !.ok = a1.ok /\ Count(a1.meshes, HitboxOf(i)) > 0,
                           !.meshes = Unlogged(a1.meshes, HitboxOf(i)),
                           !.colliders[i].model_id = FALSE,
                           !.log = Logged(a1.log, <<"hitbox", EntityOf(i)>>)]
                   ELSE a1
         IN RemoveRaycastRun(Tail(ids), a2)

RemoveRaycastColliderSystem ==
    /\ pc = "death" /\ IsNext(DeathSystems, "raycast")
    /\ LET r == RemoveRaycastRun(
                    Ascending(DOMAIN colliders \cap toBeRemoved.bitset),
                    [world |-> raycastWorld, colliders |-> colliders,
                     meshes |-> meshModels, log |-> cleanupLog, ok |-> TRUE])
       IN IF ~r.ok THEN Panic
          ELSE /\ raycastWorld' = r.world
               /\ colliders' = r.colliders
               /\ meshModels' = r.meshes
               /\ cleanupLog' = r.log
               /\ done' = done \cup {"raycast"}
               /\ UNCHANGED <<gens, live, lazy, transforms, scales, bodies, models,
                              blocks, gadgets, asteroids, missles, healths, ships,
                              miners, lasers, lines, field, toBeRemoved,
                              inventory, insertedModels, inputAction, pc,
                              contacts, deletedLog, minedLog, call>>

(* ------------------------------ maintenance ---------------------------- *)
FlushableNever(alive) == {}
\* the entries of the lazy queue whose builder inserts into live entities
Flushable(alive) == {k \in DOMAIN lazy : lazy[k].ent[1] \in alive}

\* the RigidBody and the Collider each builder attaches
BuiltBody(entry) ==
    IF entry.kind = "asteroid" THEN Pos(1, 0) ELSE Pos(0, 0)
BuiltCollider(entry) ==
    IF entry.kind = "asteroid" THEN NewCollider(ASTEROID, {SHIP, MISSLE})
    ELSE IF entry.kind = "missle" THEN NewCollider(MISSLE, {ASTEROID})
    ELSE NewCollider(SHIP, {ASTEROID})
\* the BlockEntity a block's builder attaches
BuiltBlock(entry) ==
    [ship |-> ShipEntity, block_id |-> entry.what, root |-> entry.pos]
\* the GadgetEntity a gadget's builder attaches
BuiltGadget(entry) == [ship |-> ShipEntity, block_id |-> entry.what]
\* the components the builder of a queued entry attaches, by storage
Components(entry) ==
    [transforms |-> entry.pos, scales |-> UnitScale,
     models |-> NewModel(entry.what),
     bodies |-> BuiltBody(entry), colliders |-> BuiltCollider(entry),
     asteroids |-> entry.what, healths |-> AsteroidHealth,
     missles |-> [target |-> entry.target], blocks |-> BuiltBlock(entry),
     gadgets |-> BuiltGadget(entry)]

FlushedNothing(f, killed, kinds, storage) ==
    [i \in DOMAIN f \ killed |-> f[i]]
\* LazyBuilder::build at the flush: storage f without the killed ids, and
\* with the built component of that storage inserted for every flushed
\* entry of one of the kinds
Flushed(f, killed, kinds, storage) ==
    LET alive == live \ killed
        new == {k \in Flushable(alive) : lazy[k].kind \in kinds}
        ids == {lazy[k].ent[1] : k \in new}
    IN [i \in (DOMAIN f \ killed) \cup ids |->
          IF i \in ids
          THEN Components(lazy[CHOOSE k \in new : lazy[k].ent[1] = i])[storage]
          ELSE f[i]]

\* the entities of the flushed entries whose block has the setup of block_id
SetUp(alive, block_id) ==
    {lazy[k].ent[1] : k \in {j \in Flushable(alive) :
                                lazy[j].what = block_id}}

\* ECS::maintain, the ids deleted by the loop over to_be_removed.as_slice()
Drained(q) == {e[1] : e \in Range(q.vec)}

\* World::maintain: the deletions are merged and the components of the
\* killed ids dropped, then the queued lazy builders run
WorldMaintain(killed) ==
    LET all == {"asteroid", "missle", "gadget", "block", "floor"}
        solid == all \ {"floor"}
    IN /\ live' = live \ killed
       /\ transforms' = Flushed(transforms, killed, all, "transforms")
       /\ scales' = Flushed(scales, killed, all, "scales")
       /\ models' = Flushed(models, killed, all, "models")
       /\ bodies' = Flushed(bodies, killed, {"asteroid", "missle"}, "bodies")
       /\ colliders' = Flushed(colliders, killed, solid, "colliders")
       /\ asteroids' = Flushed(asteroids, killed, {"asteroid"}, "asteroids")
       /\ healths' = Flushed(healths, killed, {"asteroid"}, "healths")
       /\ missles' = Flushed(missles, killed, {"missle"}, "missles")
       /\ blocks' = Flushed(blocks, killed, {"block"}, "blocks")
       /\ gadgets' = Flushed(gadgets, killed, {"gadget"}, "gadgets")
       /\ lasers' = (lasers \ killed) \cup SetUp(live \ killed, "laser")
       /\ miners' = [i \in (DOMAIN miners \ killed)
                             \cup SetUp(live \ killed, "miner") |->
                        IF i \in DOMAIN miners \ killed THEN miners[i]
                        ELSE [shoot_time |-> 0]]
       /\ insertedModels' = insertedModels
            \cup {lazy[k].ent[1] : k \in Flushable(live \ killed)}
       /\ ships' = Drop(ships, killed)
       /\ lines' = lines \ killed
       /\ lazy' = <<>>

\* ECS::maintain after the death dispatcher: delete every queued entity,
\* clear the queue, then World::maintain
Maintain ==
    /\ pc = "death" /\ Barrier(DeathSystems)
    /\ IF \E e \in Range(toBeRemoved.vec) : ~IsAlive(e)
       THEN Panic
       ELSE /\ deletedLog' =
                 [e \in Range(toBeRemoved.vec) |->
                     Cardinality({k \in DOMAIN toBeRemoved.vec :
                                     toBeRemoved.vec[k] = e})]
            /\ toBeRemoved' = Clear(toBeRemoved)
            /\ WorldMaintain(Drained(toBeRemoved))
            /\ pc' = "input"
            /\ UNCHANGED <<gens, field, inventory, raycastWorld,
                           meshModels, inputAction, done, contacts,
                           cleanupLog, minedLog, call>>

(* -------------------------------- input -------------------------------- *)
\* between two updates the pointer may set the input action: to None, or to
\* an action on the asteroid the pointer's ray hits
FixedUpdateInput ==
    /\ pc = "input"
    /\ \/ UNCHANGED inputAction
       \/ inputAction' = [kind |-> "None", target |-> NoEntity]
       \/ \E kind \in {"Laser", "Mining"},
             e \in RaycastResults({ASTEROID}) \ {NoEntity} :
            inputAction' = [kind |-> kind, target |-> e]
    /\ pc' = "gameplay"
    /\ done' = {}
    /\ contacts' = <<>>
    /\ cleanupLog' = EmptyFn
    /\ deletedLog' = EmptyFn
    /\ call' = NoCall
    /\ raycastWorld' = AfterRaycast(raycastWorld)
    /\ UNCHANGED <<gens, live, lazy, storages, field, toBeRemoved, inventory,
                   meshModels, insertedModels, minedLog>>

(* ------------------------------ ECS::update ---------------------------- *)
Next ==
    \/ FixedUpdateInput
    \/ MinerSystem
    \/ LaserSystem
    \/ MiningMissleSystem
    \/ NoMoreHealthSystem
    \/ AsteroidShrinkSystem
    \/ AsteroidFieldSystem
    \/ PhysicsSystem
    \/ RaycastSystem
    \/ ModelUpdateSystem
    \/ AsteroidMinedSystem
    \/ RemoveModelSystem
    \/ RemoveRaycastColliderSystem
    \/ Maintain

Spec == Init /\ [][Next]_vars

(* --------------------------- Health, on its own ------------------------ *)
\* Health(h) for any amount h
InitHealth ==
    /\ InitWorld
    /\ healths = EmptyFn
    /\ inventory = NewInventory
    /\ pc = "health"
    /\ done = {}
    /\ \E h \in Word :
          call = [op |-> "new", health |-> h, before |-> h, amount |-> 0]

\* health.damage(amount), for any amount
DamageCall ==
    /\ pc = "health"
    /\ \E amount \in Word :
          call' = [op |-> "damage", health |-> Damage(call.health, amount),
                   before |-> call.health, amount |-> amount]
    /\ UNCHANGED <<gens, live, lazy, storages, field, toBeRemoved, inventory,
                   raycastWorld, meshModels, insertedModels, inputAction, pc,
                   done, contacts, cleanupLog, deletedLog, minedLog>>

NextHealth == DamageCall

SpecHealth == InitHealth /\ [][NextHealth]_vars

(* ---------------------------- build actions --------------------------- *)
\* Blocks: the ids of the catalog, and Block.is_gadget
BlockIds == {"wall", "miner", "laser", "cooler"}
IsGadget(block_id) == block_id \in {"laser", "cooler"}
\* GameItem::stack
Stack(item, amount) == [item |-> item, amount |-> amount]
\* Block.cost, the build cost of a block: a list of item stacks
Cost(block_id) ==
    IF block_id = "laser" THEN <<Stack("Iron", 5)>>
    ELSE IF block_id = "cooler" THEN <<Stack("Iron", 5), Stack("Copper", 5)>>
    ELSE <<>>

\* Inventory::has_enough_items
HasEnoughItems(inv, item_stack) == inv[item_stack.item] >= item_stack.amount
\* Inventory::remove
Remove(inv, item, delta) == [inv EXCEPT ![item] = @ - delta]

UnaffordableFirst(inv, cost) ==
    cost # <<>> /\ ~HasEnoughItems(inv, cost[1])
\* cost.iter().filter(|cost| !inventory.has_enough_items(cost)).count() > 0
Unaffordable(inv, cost) ==
    \E k \in DOMAIN cost : ~HasEnoughItems(inv, cost[k])

RECURSIVE Deduct(_, _)
\* cost.iter().for_each(|cost| inventory.remove(cost.item, cost.amount))
Deduct(inv, cost) ==
    IF cost = <<>> THEN inv
    ELSE Deduct(Remove(inv, Head(cost).item, Head(cost).amount), Tail(cost))

BaseAnySlot(tiles, pos) ==
    IF pos \in DOMAIN tiles THEN tiles[pos].block ELSE NoEntity
\* the base of a gadget: the tile at pos, its block slot, the BlockEntity of
\* the entity in it; NoEntity when one of them is missing
BaseOf(tiles, pos) ==
    IF /\ pos \in DOMAIN tiles
       /\ tiles[pos].block # NoEntity
       /\ Has(blocks, tiles[pos].block)
    THEN tiles[pos].block ELSE NoEntity

\* the loop has visited one more action, with this outcome
Note(acc, outcome, e) ==
    [acc EXCEPT !.log = Append(acc.log, [outcome |-> outcome, entity |-> e])]
\* lazy_update.create_entity(&entities) ... .build()
Alloc(acc, e, entry) ==
    [acc EXCEPT !.gens = Raise(acc.gens, e),
                !.live = acc.live \cup {e[1]},
                !.lazy = Append(acc.lazy, entry)]
\* no entity can be created within the model's bound
OutOfIds(acc) == [acc EXCEPT !.ok = FALSE]

AbandonAsSkip(acc) == acc
\* break
Abandon(acc) == [acc EXCEPT !.state = "break"]
FatalAsSkip(acc) == acc
\* unimplemented!() and expect()
Fatal(acc) == [acc EXCEPT !.state = "panic"]

\* the deduction of the cost, unless the price is ignored
Pay(inv, cost, ignore_price) ==
    IF ignore_price THEN inv ELSE Deduct(inv, cost)

\* BuildBlock of a gadget
BuildGadget(acc, a, ignore_price) ==
    LET e == NewEntity(acc.gens, acc.live)
    IN IF BaseOf(acc.tiles, a.pos) = NoEntity
       THEN Note(acc, "skipped", NoEntity)
       ELSE IF ~ignore_price /\ Unaffordable(acc.inventory, Cost(a.what))
       THEN Abandon(Note(acc, "abandoned", NoEntity))
       ELSE IF FreeIds(acc.gens, acc.live) = {} THEN OutOfIds(acc)
       ELSE [Note(Alloc(acc, e, LazyGadget(e, a.pos, a.what)), "built", e)
               EXCEPT !.inventory = Pay(@, Cost(a.what), ignore_price),
                      !.tiles[a.pos].gadget = e]

BuildPlainAnywhere(acc, a) ==
    LET e == NewEntity(acc.gens, acc.live)
        entry == IF a.kind = "BuildBlock" THEN LazyBlock(e, a.pos, a.what)
                 ELSE LazyFloor(e, a.pos, a.what)
    IN IF FreeIds(acc.gens, acc.live) = {} THEN OutOfIds(acc)
       ELSE [Note(Alloc(acc, e, entry), "built", e)
               EXCEPT !.tiles = (a.pos :> [EmptyTile EXCEPT !.block = e]) @@ @]

\* BuildBlock of a block that is no gadget, and BuildFloor: the entity is
\* created, then written to the block slot of the tile, which must exist
BuildPlain(acc, a) ==
    LET e == NewEntity(acc.gens, acc.live)
        entry == IF a.kind = "BuildBlock" THEN LazyBlock(e, a.pos, a.what)
                 ELSE LazyFloor(e, a.pos, a.what)
    IN IF FreeIds(acc.gens, acc.live) = {} THEN OutOfIds(acc)
       ELSE IF a.pos \notin DOMAIN acc.tiles
       THEN Fatal(Note(Alloc(acc, e, entry), "panic", e))
       ELSE [Note(Alloc(acc, e, entry), "built", e)
               EXCEPT !.tiles[a.pos].block = e]

\* one turn of the loop of execute_build_actions
BuildStep(acc, a, ignore_price) ==
    IF a.kind = "BuildBlock" /\ IsGadget(a.what)
    THEN BuildGadget(acc, a, ignore_price)
    ELSE IF a.kind = "BuildBlock"
    THEN BuildPlain(acc, a)
    ELSE IF a.kind = "BuildFloor"
    THEN BuildPlain(acc, a)
    ELSE Fatal(Note(acc, "panic", NoEntity))

RECURSIVE BuildRun(_, _, _)
\* the loop of execute_build_actions over the actions, on the accumulated
\* [gens, live, lazy, tiles, inventory, log, state, ok]
BuildRun(actions, ignore_price, acc) ==
    IF actions = <<>> \/ acc.state # "run" \/ ~acc.ok THEN acc
    ELSE BuildRun(Tail(actions), ignore_price,
                  BuildStep(acc, Head(actions), ignore_price))

\* the build actions a caller may pass
BuildCells == {WallPos, Pos(1, 0), OutsideCell}
BuildActions ==
    [kind : {"BuildBlock"}, pos : BuildCells, what : {"wall", "laser", "cooler"}]
    \cup [kind : {"BuildFloor"}, pos : {Pos(1, 0), OutsideCell},
          what : {"metal"}]
    \cup [kind : {"RemoveBlock", "RemoveFloor"}, pos : {Pos(1, 0)},
          what : {"none"}]
Batches == UNION {[1 .. n -> BuildActions] : n \in 0 .. MaxBatch}

\* what execute_build_actions finds when it is called
BuildStart ==
    [gens |-> gens, live |-> live, lazy |-> lazy,
     tiles |-> ships[ShipEntity[1]].tiles, inventory |-> inventory,
     log |-> <<>>, state |-> "run", ok |-> TRUE]

\* what a call of execute_build_actions(world, ship_entity, actions,
\* ignore_price) does to the world, within the model's bound on entities
Executed(actions, ignore_price) ==
    /\ \E r \in {BuildRun(actions, ignore_price, BuildStart)} :
          /\ r.ok
          /\ Created(r.gens) <= MaxBuilt
          /\ gens' = r.gens /\ live' = r.live /\ lazy' = r.lazy
          /\ ships' = [ships EXCEPT ![ShipEntity[1]].tiles = r.tiles]
          /\ inventory' = r.inventory
          /\ call' = [op |-> "build", actions |-> actions,
                      ignore_price |-> ignore_price, log |-> r.log,
                      pre |-> BuildStart]
          /\ pc' = IF r.state = "panic" THEN "panic" ELSE "build"
    /\ UNCHANGED <<transforms, scales, bodies, colliders, models, blocks, gadgets,
                   asteroids, missles, healths, miners, lasers, lines, field,
                   toBeRemoved, raycastWorld, meshModels, insertedModels,
                   inputAction, done, contacts, cleanupLog, deletedLog,
                   minedLog>>

\* execute_build_actions(world, ship_entity, actions, ignore_price), called
\* with a batch on the first ship, before or after its pending gadget is
\* flushed; the worlds built from there are explored by the clicks. What a
\* call finds when builders are pending is what the later actions of a
\* batch find.
ExecuteBuildActions ==
    /\ pc = "build"
    /\ call.op # "build"
    /\ Created(gens) = 0
    /\ \E actions \in Batches, ignore_price \in BOOLEAN :
          Executed(actions, ignore_price)

\* InputAction::on_click with the action Build(block_id) of one of the build
\* buttons, on a target that carries a BlockEntity: the gadget is built at
\* the root of the target, at its price. Nothing maintains the world
\* between two clicks.
OnClick ==
    /\ pc = "build"
    /\ Created(gens) < MaxBuilt
    /\ \E target \in live \cap DOMAIN blocks, block_id \in {"laser", "cooler"} :
          Executed(<<[kind |-> "BuildBlock", pos |-> blocks[target].root,
                      what |-> block_id]>>, FALSE)

\* world.maintain() between two calls, as in create_ship
MaintainBuilt ==
    /\ pc = "build"
    /\ lazy # <<>>
    /\ WorldMaintain({})
    /\ call' = [op |-> "maintain"]
    /\ UNCHANGED <<gens, field, toBeRemoved, inventory, raycastWorld,
                   meshModels, inputAction, pc, done, contacts, cleanupLog,
                   deletedLog, minedLog>>

\* the ship as ECS::new leaves it, and an inventory of some mined rewards
InitBuild ==
    /\ InitWorld
    /\ healths = EmptyFn
    /\ inventory \in [GameItem -> {0, MinedReward * MaxRewards}]
    /\ call = NoCall
    /\ pc = "build"
    /\ done = {}

NextBuild ==
    \/ ExecuteBuildActions
    \/ OnClick
    \/ MaintainBuilt

SpecBuild == InitBuild /\ [][NextBuild]_vars

(* ======================= properties of the tick ======================== *)
\* the physics system has run in this tick and maintenance has not yet
AfterPhysics == pc \in {"raycast", "models", "death"}
\* entity e took part in contact event ev
InEvent(ev, e) == ev[1] = e \/ ev[2] = e
\* contact event ev is between a block entity and an asteroid
BlockAsteroidEvent(ev) ==
    HasComponent(ev[1], ev[2], blocks) /\ HasComponent(ev[1], ev[2], asteroids)
\* contact event ev is between a mining missile and an asteroid
MissleAsteroidEvent(ev) ==
    HasComponent(ev[1], ev[2], missles) /\ HasComponent(ev[1], ev[2], asteroids)

\* C1: however often add(e) is called before the drain, the queue holds e
\* once, e is deleted once, and its model instance, its raycast registration
\* and its hitbox proxy are each removed once; nothing of e is left after.
C1_IdempotentRemoval ==
    /\ \A j, k \in DOMAIN toBeRemoved.vec :
          toBeRemoved.vec[j] = toBeRemoved.vec[k] => j = k
    /\ toBeRemoved.bitset = {e[1] : e \in Range(toBeRemoved.vec)}
    /\ \A c \in DOMAIN cleanupLog : cleanupLog[c] = 1
    /\ \A e \in DOMAIN deletedLog :
          /\ deletedLog[e] = 1
          /\ ~IsAlive(e)
          /\ Count(cleanupLog, <<"model", e>>) = 1
          /\ Count(cleanupLog, <<"raycast", e>>) = 1
          /\ Count(cleanupLog, <<"hitbox", e>>) = 1
          /\ \A h \in DOMAIN raycastWorld : raycastWorld[h].ent # e
          /\ \A h \in DOMAIN meshModels : h[2] # e[1] \/ h[3] # e[2]

\* an asteroid was added by two block contacts of one tick, and is gone
C1_Witness ==
    /\ pc = "input"
    /\ \E j, k \in DOMAIN contacts :
          /\ j # k
          /\ \E e \in DOMAIN deletedLog :
                InEvent(contacts[j], e) /\ InEvent(contacts[k], e)

\* the contact events of seq evs in which a block of ship s took part
BlockEventsOf(evs, s) ==
    {k \in DOMAIN evs :
        /\ HasComponent(evs[k][1], evs[k][2], blocks)
        /\ LET b == IF Has(blocks, evs[k][1]) THEN evs[k][1] ELSE evs[k][2]
           IN blocks[b[1]].ship = EntityOf(s)}

\* C2: the physics system queues the asteroid of every contact-started pair
\* of a block entity and an asteroid, and raises the heat of the ship that
\* owns the struck block by exactly 20 for each such contact of the tick.
C2_BlockContactHeat ==
    [][(pc = "gameplay" /\ pc' = "raycast") =>
          /\ \A k \in DOMAIN contacts' :
                BlockAsteroidEvent(contacts'[k]) =>
                   \E e \in Range(toBeRemoved'.vec) :
                      InEvent(contacts'[k], e) /\ Has(asteroids, e)
          /\ \A s \in DOMAIN ships :
                ships'[s].heat = ships[s].heat
                   + HeatPerContact * Cardinality(BlockEventsOf(contacts', s))
      ]_vars

\* the physics system has found one block/asteroid contact: heat is 20
C2_Witness ==
    /\ pc = "raycast"
    /\ Cardinality({k \in DOMAIN contacts :
                       BlockAsteroidEvent(contacts[k])}) = 1
    /\ ships[0].heat = HeatPerContact

\* C3: after the physics system has run, the missile and the asteroid of
\* every contact-started pair of a mining missile and an asteroid are both
\* in the Removal Queue.
C3_MissleContactQueued ==
    AfterPhysics =>
       \A k \in DOMAIN contacts :
          MissleAsteroidEvent(contacts[k]) =>
             /\ contacts[k][1] \in Range(toBeRemoved.vec)
             /\ contacts[k][2] \in Range(toBeRemoved.vec)

\* a missile has hit an asteroid in this tick's physics world
C3_Witness ==
    /\ pc = "raycast"
    /\ \E k \in DOMAIN contacts :
          /\ MissleAsteroidEvent(contacts[k])
          /\ \E m \in DOMAIN missles : InEvent(contacts[k], EntityOf(m))

\* two registered colliders share their group, which neither whitelists
SameGroup(a, b) ==
    /\ a # b
    /\ colliders[a].group = colliders[b].group
    /\ colliders[a].group \notin colliders[a].whitelist
    /\ colliders[b].group \notin colliders[b].whitelist

\* C4: two entities registered in the physics world with the same group,
\* which neither whitelists, never produce a contact-started event against
\* each other, wherever they are; no block/block, asteroid/asteroid or
\* missile/missile contact is processed.
C4_NoSameGroupContact ==
    /\ \A G \in AllGroups :
          \A wa, wb \in SUBSET (AllGroups \ {G}) :
             ~CanInteract([membership |-> {G}, whitelist |-> wa],
                          [membership |-> {G}, whitelist |-> wb])
    /\ AfterPhysics =>
          \A k \in DOMAIN contacts :
             LET a == contacts[k][1][1]
                 b == contacts[k][2][1]
             IN /\ ~SameGroup(a, b)
                /\ colliders[a].group # colliders[b].group
                /\ ~(Has(blocks, contacts[k][1]) /\ Has(blocks, contacts[k][2]))
                /\ ~(Has(asteroids, contacts[k][1])
                     /\ Has(asteroids, contacts[k][2]))
                /\ ~(Has(missles, contacts[k][1])
                     /\ Has(missles, contacts[k][2]))

\* two blocks of one group were registered on the very same cell, and two
\* more side by side, while the world reported a contact of another pair
C4_Witness ==
    /\ pc = "raycast"
    /\ contacts # <<>>
    /\ \E a, b \in Registered :
          SameGroup(a, b) /\ transforms[a] = transforms[b]
    /\ \E a, b \in Registered :
          /\ SameGroup(a, b) /\ transforms[a] # transforms[b]
          /\ Touch(transforms[a], transforms[b])

\* the items in stock, all kinds together
Stock(inv) == inv["Iron"] + inv["Copper"]
\* the live entities whose Health is exactly 0
ZeroHealth == {i \in DOMAIN healths : i \in live /\ healths[i] = 0}
\* entity id i is in the Removal Queue
Queued(i) == EntityOf(i) \in Range(toBeRemoved.vec)
\* the storages that hold a component of id i
ComponentsOf(i) ==
    <<i \in DOMAIN transforms, i \in DOMAIN bodies, i \in DOMAIN colliders,
      i \in DOMAIN models, i \in DOMAIN asteroids, i \in DOMAIN healths>>
\* the step of the health system, and the step of the maintenance
HealthStep == pc = "gameplay" /\ "health" \notin done /\ "health" \in done'
MaintainStep == pc = "death" /\ pc' = "input"

\* C6: the health system queues every entity whose Health is 0 and changes no
\* health and deletes nothing; a queued entity with Health 0 stays alive,
\* queued, at Health 0 and with its components through every later step of
\* the tick, the death-cleanup pass included, and the tick's maintenance
\* step deletes it.
C6_DeathIsDeferred ==
    [][/\ HealthStep =>
             /\ \A i \in ZeroHealth : Queued(i)'
             /\ healths' = healths
             /\ live' = live
       /\ \A i \in ZeroHealth :
             Queued(i) =>
                IF MaintainStep
                THEN /\ i \notin live'
                     /\ ~IsAlive(<<i, gens[i]>>)'
                     /\ i \notin DOMAIN healths'
                     /\ i \notin DOMAIN transforms'
                ELSE /\ i \in ZeroHealth'
                     /\ Queued(i)'
                     /\ gens'[i] = gens[i]
                     /\ ComponentsOf(i)' = ComponentsOf(i)
                     /\ ComponentsOf(i)[1] /\ ComponentsOf(i)[5]
      ]_vars

\* the death-cleanup pass has run over a queued asteroid whose Health is 0,
\* and the asteroid is still alive with its components
C6_Witness ==
    /\ pc = "death" /\ done = Range(DeathSystems)
    /\ \E i \in ZeroHealth :
          /\ Queued(i)
          /\ i \in DOMAIN asteroids /\ i \in DOMAIN transforms
          /\ asteroids[i] \in DOMAIN inventory
          /\ inventory[asteroids[i]] = MinedReward

C5_DamageSaturates ==
    call.op = "damage" =>
       /\ call.health \in 0 .. call.before
       /\ call.amount > call.before => call.health = 0
       /\ call.amount <= call.before => call.health = call.before - call.amount

\* a damage call for more than the health that was left, after an earlier
\* call had already taken some away
C5_Witness ==
    /\ call.op = "damage"
    /\ call.before > 0 /\ call.before < 2 ^ HealthBits - 1
    /\ call.amount > call.before
    /\ call.health = 0

(* =================== properties of the build actions =================== *)
\* the tiles of the ship, now and when the last call began
Tiles == ships[ShipEntity[1]].tiles
\* action a builds a gadget
BuildsGadget(a) == a.kind = "BuildBlock" /\ IsGadget(a.what)
\* the tile at pos of tiles has no base block in its block slot
NoBaseBlock(tiles, pos) ==
    \/ pos \notin DOMAIN tiles
    \/ tiles[pos].block = NoEntity
    \/ tiles[pos].block[1] \notin DOMAIN blocks
\* the loop of the last call has entered its action k
Reached(k) == k <= Len(call.log)
\* action k of the last call built its entity
Built(k) == Reached(k) /\ call.log[k].outcome = "built"
\* the amount of item in a cost list
RECURSIVE AmountOf(_, _)
AmountOf(cost, item) ==
    IF cost = <<>> THEN 0
    ELSE (IF Head(cost).item = item THEN Head(cost).amount ELSE 0)
         + AmountOf(Tail(cost), item)
\* what the gadgets built by the first n actions of the last call cost
RECURSIVE Spent(_, _)
Spent(n, item) ==
    IF n = 0 THEN 0
    ELSE Spent(n - 1, item)
         + (IF Built(n) /\ BuildsGadget(call.actions[n])
            THEN AmountOf(Cost(call.actions[n].what), item) ELSE 0)
\* the entries the last call added to the lazy queue
NewLazy == (Len(call.pre.lazy) + 1) .. Len(lazy)

\* C8: a gadget BuildBlock that the loop reaches, at a coordinate whose tile
\* had no base block in its block slot, is skipped whatever ignore_price is:
\* no gadget entity is created at the coordinate, the gadget slot of the
\* tile keeps its value, the inventory loses nothing for it, and the loop
\* goes on to the next action of the batch.
C8_GadgetNeedsBase ==
    call.op = "build" =>
       \A k \in DOMAIN call.actions :
          LET a == call.actions[k]
          IN (/\ Reached(k)
              /\ BuildsGadget(a)
              /\ NoBaseBlock(call.pre.tiles, a.pos)) =>
                /\ call.log[k] = [outcome |-> "skipped", entity |-> NoEntity]
                /\ \A j \in NewLazy :
                      ~(lazy[j].kind = "gadget" /\ lazy[j].pos = a.pos)
                /\ a.pos \in DOMAIN Tiles =>
                      Tiles[a.pos].gadget = call.pre.tiles[a.pos].gadget
                /\ DOMAIN Tiles = DOMAIN call.pre.tiles
                /\ \A item \in GameItem :
                      inventory[item] = call.pre.inventory[item]
                         - (IF call.ignore_price THEN 0
                            ELSE Spent(Len(call.actions), item))
                /\ k < Len(call.actions) => Reached(k + 1)

\* a gadget that could have been paid for was skipped for want of a base
\* block, and the action after it in the batch then built its block
C8_Witness ==
    /\ call.op = "build" /\ ~call.ignore_price
    /\ Len(call.actions) = 2
    /\ BuildsGadget(call.actions[1])
    /\ NoBaseBlock(call.pre.tiles, call.actions[1].pos)
    /\ call.actions[1].pos \in DOMAIN Tiles
    /\ ~Unaffordable(call.pre.inventory, Cost(call.actions[1].what))
    /\ call.log[1].outcome = "skipped"
    /\ Built(2) /\ call.actions[2].pos = call.actions[1].pos
    /\ Len(lazy) = Len(call.pre.lazy) + 1

\* the last call was made with ignore_price = false on a batch of two whose
\* first action builds a gadget that costs 5 of an item the inventory had
\* none of
ScenarioB ==
    /\ call.op = "build" /\ ~call.ignore_price
    /\ Len(call.actions) = 2
    /\ BuildsGadget(call.actions[1])
    /\ \E item \in GameItem :
          /\ call.pre.inventory[item] = 0
          /\ AmountOf(Cost(call.actions[1].what), item) = 5
\* the last call created no entity and left the inventory as it was
NothingBuilt ==
    /\ lazy = call.pre.lazy
    /\ gens = call.pre.gens /\ live = call.pre.live
    /\ Tiles = call.pre.tiles
    /\ inventory = call.pre.inventory

\* C9 as stated: in scenario B no entity is created from either action and
\* the inventory is unchanged.
C9_Original == ScenarioB => NothingBuilt

\* C9, amended: in scenario B with a base block in the block slot of the
\* first action's tile, no entity is created from either action and the
\* inventory is unchanged.
C9_ScenarioB ==
    (ScenarioB /\ ~NoBaseBlock(call.pre.tiles, call.actions[1].pos))
       => NothingBuilt

\* scenario B on a base block, with part of the gadget's cost in stock and a
\* second action that builds a block when it is called alone
C9_Witness ==
    /\ ScenarioB
    /\ ~NoBaseBlock(call.pre.tiles, call.actions[1].pos)
    /\ \E item \in GameItem : call.pre.inventory[item] > 0
    /\ call.actions[2].kind = "BuildBlock" /\ ~IsGadget(call.actions[2].what)
    /\ call.actions[2].pos \in DOMAIN Tiles
    /\ NothingBuilt

\* what the loop of the last call had made of the world before its action i
Before(i) ==
    BuildRun(SubSeq(call.actions, 1, i - 1), call.ignore_price, call.pre)
\* the last call reached the gadget build at index i, on a base block, and
\* could not pay at least one entry of its cost
CannotPay(i) ==
    /\ call.op = "build" /\ ~call.ignore_price
    /\ i \in DOMAIN call.actions
    /\ BuildsGadget(call.actions[i])
    /\ Before(i).state = "run"
    /\ ~NoBaseBlock(Before(i).tiles, call.actions[i].pos)
    /\ \E item \in GameItem :
          /\ AmountOf(Cost(call.actions[i].what), item) > 0
          /\ Before(i).inventory[item]
                < AmountOf(Cost(call.actions[i].what), item)
\* the number of the first n actions of the last call that built an entity
RECURSIVE BuiltCount(_)
BuiltCount(n) ==
    IF n = 0 THEN 0 ELSE BuiltCount(n - 1) + (IF Built(n) THEN 1 ELSE 0)

\* C10: with ignore_price = false, a gadget build at index i on a base block
\* that cannot pay an entry of its cost ends the batch: the world is what
\* the actions before i made of it (their entities, their slots, the costs
\* their gadgets paid), nothing of action i or of a later action is created,
\* written or deducted. With ignore_price = true a call never changes the
\* inventory.
C10_BatchAbandoned ==
    /\ \A i \in 1 .. MaxBatch :
          CannotPay(i) =>
             /\ Len(call.log) = i
             /\ \A k \in 1 .. (i - 1) : call.log[k].outcome # "abandoned"
             /\ call.log[i] = [outcome |-> "abandoned", entity |-> NoEntity]
             /\ lazy = Before(i).lazy
             /\ gens = Before(i).gens /\ live = Before(i).live
             /\ Tiles = Before(i).tiles
             /\ inventory = Before(i).inventory
             /\ Len(lazy) = Len(call.pre.lazy) + BuiltCount(i - 1)
             /\ \A item \in GameItem :
                   inventory[item] = call.pre.inventory[item] - Spent(i - 1, item)
             /\ \A k \in 1 .. (i - 1) :
                   Built(k) =>
                      /\ IsAlive(call.log[k].entity)
                      /\ \E j \in NewLazy : lazy[j].ent = call.log[k].entity
                      /\ LET slot == Tiles[call.actions[k].pos]
                         IN IF BuildsGadget(call.actions[k])
                            THEN slot.gadget = call.log[k].entity
                                 \/ \E m \in (k + 1) .. (i - 1) :
                                       call.actions[m].pos = call.actions[k].pos
                            ELSE slot.block = call.log[k].entity
                                 \/ \E m \in (k + 1) .. (i - 1) :
                                       call.actions[m].pos = call.actions[k].pos
    /\ (call.op = "build" /\ call.ignore_price) =>
          inventory = call.pre.inventory

\* the first action built a gadget and paid for it, the second, on a base
\* block, could no longer be paid and was abandoned
C10_Witness ==
    /\ CannotPay(2)
    /\ Built(1) /\ BuildsGadget(call.actions[1])
    /\ \E item \in GameItem : inventory[item] < call.pre.inventory[item]
    /\ Len(lazy) = Len(call.pre.lazy) + 1
    /\ Tiles # call.pre.tiles

(* --------------------------- tile occupancy ---------------------------- *)
\* a BuildBlock of a block that is no gadget, or a BuildFloor
PlainBuild(a) ==
    a.kind = "BuildFloor" \/ (a.kind = "BuildBlock" /\ ~IsGadget(a.what))
\* the last call was a batch of BuildBlock/BuildFloor actions that all
\* succeeded
AllSucceeded ==
    /\ call.op = "build" /\ call.actions # <<>>
    /\ \A k \in DOMAIN call.actions :
          PlainBuild(call.actions[k]) /\ Built(k)
\* the slot of the action's kind in the tile at its coordinate: the floor
\* slot for BuildFloor, the block slot for BuildBlock
SlotOf(tiles, a) ==
    IF a.kind = "BuildFloor" THEN tiles[a.pos].floor ELSE tiles[a.pos].block
\* entity e is alive and carries what action a asked for: a BlockEntity
\* with the block id, or a Model of the floor's mesh
Carries(l, g, b, m, e, a) ==
    /\ e # NoEntity /\ e[1] \in l /\ g[e[1]] = e[2]
    /\ IF a.kind = "BuildFloor"
       THEN e[1] \in DOMAIN m /\ m[e[1]].mesh_id = a.what
       ELSE e[1] \in DOMAIN b /\ b[e[1]].block_id = a.what

\* C11: after a batch of BuildBlock/BuildFloor actions that all succeeded,
\* the slot of every action's kind at its coordinate (block slot for
\* BuildBlock of a non-gadget, floor slot for BuildFloor) holds an entity,
\* and once maintenance has run that entity is alive and carries a
\* BlockEntity with the requested block id, respectively a Model with the
\* requested floor's mesh.
C11_TileOccupancy ==
    [][/\ AllSucceeded' =>
            \A k \in DOMAIN call'.actions :
               SlotOf(Tiles', call'.actions[k]) # NoEntity
       /\ (AllSucceeded /\ call'.op = "maintain") =>
            \A k \in DOMAIN call.actions :
               Carries(live', gens', blocks', models',
                       SlotOf(Tiles, call.actions[k]), call.actions[k])]_vars

(* ------------------------- the forward index --------------------------- *)
\* the world has been maintained after the last build call
Maintained == call.op = "maintain" /\ lazy = <<>>
\* the block slot of the ship's tile at the root of block entity i refers
\* to that entity
IndexedBlock(i) ==
    /\ blocks[i].ship = ShipEntity
    /\ blocks[i].root \in DOMAIN Tiles
    /\ Tiles[blocks[i].root].block = EntityOf(i)
\* the gadget slot of some tile refers to gadget entity i
IndexedGadget(i) ==
    \E c \in DOMAIN Tiles : Tiles[c].gadget = EntityOf(i)

\* C12: after maintenance, the block slot of the ship's tile at the root of
\* every live entity that carries a BlockEntity refers to that entity, and
\* every live entity that carries a GadgetEntity is referred to by the
\* gadget slot of a tile, whatever build actions ran before, those onto an
\* occupied tile included.
C12_ForwardIndex ==
    Maintained =>
       /\ \A i \in live \cap DOMAIN blocks : IndexedBlock(i)
       /\ \A i \in live \cap DOMAIN gadgets : IndexedGadget(i)

(* ------------------------ gadgets and the flush ------------------------ *)
\* a non-gadget BuildBlock at c has run and its builder is not flushed yet
PendingBlockAt(acc, c) ==
    \E j \in DOMAIN acc.lazy :
       acc.lazy[j].kind = "block" /\ acc.lazy[j].pos = c
\* the block slot of the tile at c refers to a live entity whose BlockEntity
\* is in the storage, rooted at c: a block built at c and flushed since
FlushedBlockAt(acc, c) ==
    /\ c \in DOMAIN acc.tiles
    /\ LET b == acc.tiles[c].block
       IN /\ b # NoEntity /\ b[1] \in acc.live /\ acc.gens[b[1]] = b[2]
          /\ b[1] \in DOMAIN blocks /\ blocks[b[1]].root = c
\* action k of the last call created nothing
CreatedNothing(k) ==
    /\ Before(k + 1).lazy = Before(k).lazy
    /\ Before(k + 1).live = Before(k).live
    /\ Before(k + 1).tiles = Before(k).tiles
\* action k of the last call created a gadget at its coordinate
CreatedGadget(k) ==
    LET a == call.actions[k]
        e == call.log[k].entity
    IN /\ Built(k) /\ e # NoEntity /\ e[1] \notin Before(k).live
       /\ Before(k + 1).lazy = Append(Before(k).lazy, LazyGadget(e, a.pos, a.what))
       /\ Before(k + 1).tiles[a.pos].gadget = e

\* C13: a gadget BuildBlock at c that runs after a non-gadget BuildBlock at c
\* with no maintenance between the two, in the same batch or in a later
\* call, does not see the base block and creates nothing; when the block at
\* c has been flushed by a maintenance, the gadget is created on it (at its
\* price, when the price counts).
C13_FlushBeforeGadget ==
    call.op = "build" =>
       \A k \in DOMAIN call.log :
          BuildsGadget(call.actions[k]) =>
             /\ PendingBlockAt(Before(k), call.actions[k].pos) =>
                   call.log[k].outcome = "skipped" /\ CreatedNothing(k)
             /\ (/\ FlushedBlockAt(Before(k), call.actions[k].pos)
                 /\ \/ call.ignore_price
                    \/ ~Unaffordable(Before(k).inventory,
                                     Cost(call.actions[k].what)))
                  => CreatedGadget(k)

\* a block was built at c by a call, a maintenance flushed it, and then a
\* gadget was built on it
C13_Witness ==
    /\ call.op = "build" /\ call.pre.lazy = <<>>
    /\ \E k \in DOMAIN call.log :
          /\ BuildsGadget(call.actions[k]) /\ CreatedGadget(k)
          /\ FlushedBlockAt(Before(k), call.actions[k].pos)
          /\ call.pre.tiles[call.actions[k].pos].block[1] \notin StaticIds

(* ---------------------------- fatal actions ---------------------------- *)
\* the call stopped with a fatal error at its action k: the program ends,
\* no later action is entered
FatalAt(k) ==
    /\ call.log[k].outcome = "panic" /\ pc = "panic"
    /\ k = Len(call.log)
\* the tile map after the call is the tile map its action k found
TilesAsBefore(k) == Tiles = Before(k).tiles
\* the world after the call is what the actions before k made of it
WorldAsBefore(k) ==
    /\ gens = Before(k).gens /\ live = Before(k).live
    /\ lazy = Before(k).lazy /\ TilesAsBefore(k)
    /\ inventory = Before(k).inventory

\* C14: a non-gadget BuildBlock or a BuildFloor at a coordinate that is not
\* in the ship's tile map is fatal: it does not succeed, the map gets no
\* tile and no slot is written.
C14_OutsideIsFatal ==
    call.op = "build" =>
       \A k \in DOMAIN call.log :
          (/\ PlainBuild(call.actions[k])
           /\ call.actions[k].pos \notin DOMAIN Before(k).tiles)
             => FatalAt(k) /\ TilesAsBefore(k)

\* a batch of two whose first action built a block and whose second is a
\* block or floor outside the tile map
C14_Witness ==
    /\ call.op = "build" /\ Len(call.log) = 2
    /\ Built(1) /\ PlainBuild(call.actions[1])
    /\ PlainBuild(call.actions[2])
    /\ call.actions[2].pos \notin DOMAIN Tiles
    /\ pc = "panic"

\* C15: a RemoveBlock or RemoveFloor is fatal where the loop reaches it: the
\* actions before it have been applied, and neither it nor an action after
\* it changes anything.
C15_RemoveIsFatal ==
    call.op = "build" =>
       \A k \in DOMAIN call.log :
          call.actions[k].kind \in {"RemoveBlock", "RemoveFloor"}
             => FatalAt(k) /\ WorldAsBefore(k)

\* a batch of two whose first action built something and whose second is a
\* remove action
C15_Witness ==
    /\ call.op = "build" /\ Len(call.log) = 2
    /\ Built(1) /\ lazy # call.pre.lazy
    /\ call.actions[2].kind \in {"RemoveBlock", "RemoveFloor"}
    /\ pc = "panic"

(* ------------------------- missing target entities --------------------- *)
\* the missile system is the next system to run
MissleTurn == pc = "gameplay" /\ IsNext(GameplaySystems, "missle")
\* the live missiles whose target is no longer alive
Orphans == {i \in MissleIds : ~IsAlive(missles[i].target)}

\* C16: when the missile system runs while the target of a missile is dead,
\* the system does not fail, queues that missile for removal in that very
\* run, and computes no velocity for it from the dead target.
C16_OrphanMissleQueued ==
    [][(MissleTurn /\ Orphans # {}) =>
          /\ "missle" \in done' /\ pc' # "panic"
          /\ \A i \in Orphans :
                /\ EntityOf(i) \in Range(toBeRemoved'.vec)
                /\ i \in toBeRemoved'.bitset
                /\ i \in DOMAIN bodies => bodies'[i] = bodies[i]]_vars

\* the missile system has just run and queued a missile whose target died
\* before the missile reached it
C16_Witness ==
    /\ pc = "gameplay" /\ "missle" \in done /\ "health" \notin done
    /\ \E i \in Orphans :
          /\ EntityOf(i) \in Range(toBeRemoved.vec)
          /\ missles[i].target # NoEntity

\* the laser system is the next system to run
LaserTurn == pc = "gameplay" /\ IsNext(GameplaySystems, "laser")

\* C17: when the laser system runs while the target of the Laser action is
\* dead or has no Transform, the system does not fail, changes no Health
\* and leaves no beam on a laser entity.
C17_AbsentLaserTarget ==
    [][(/\ LaserTurn
        /\ inputAction.kind = "Laser"
        /\ ~Has(transforms, inputAction.target)) =>
          /\ "laser" \in done' /\ pc' # "panic"
          /\ healths' = healths
          /\ lines' \cap LaserIds = {}]_vars

\* the lasers whose raycast returned the target of the Laser action
Beams(hit) ==
    {i \in LaserIds :
        inputAction.kind = "Laser" /\ hit[i] = inputAction.target}
\* health h after n hits of 1, saturating at 0
AfterHits(h, n) == IF h >= n THEN h - n ELSE 0

\* C18: after the laser system has run, a laser entity carries a beam if and
\* only if the action is Laser and its raycast returned exactly the target;
\* each such laser takes exactly 1 off the target's Health, saturating at 0,
\* and no other Health changes.
C18_BeamIffLineOfSight ==
    [][(LaserTurn /\ "laser" \in done') =>
          LET beams == Beams(call'.hit)
              t == inputAction.target
          IN /\ \A i \in LaserIds : i \in lines' <=> i \in beams
             /\ DOMAIN healths' = DOMAIN healths
             /\ \A j \in DOMAIN healths :
                   healths'[j] =
                      IF beams # {} /\ t = EntityOf(j)
                      THEN AfterHits(healths[j], Cardinality(beams))
                      ELSE healths[j]]_vars

\* the laser system has just run, a laser's raycast returned the target,
\* the laser carries the beam and the target has lost health
C18_Witness ==
    /\ pc = "gameplay" /\ "laser" \in done /\ "missle" \notin done
    /\ call.op = "laser" /\ inputAction.kind = "Laser"
    /\ \E i \in LaserIds :
          /\ call.hit[i] = inputAction.target /\ i \in lines
          /\ Has(healths, inputAction.target)
          /\ healths[inputAction.target[1]] < AsteroidHealth

(* ------------------------- the order of maintenance -------------------- *)
\* a death-cleanup system runs to its end
DeathStep == pc = "death" /\ done' # done
\* queue q2 is queue q1 with entities added at its end
Extends(q1, q2) ==
    /\ Len(q2.vec) >= Len(q1.vec)
    /\ SubSeq(q2.vec, 1, Len(q1.vec)) = q1.vec
    /\ q1.bitset \subseteq q2.bitset

\* C19: the removal queue is emptied by one step of a tick only, the one
\* after the main pass and the three death-cleanup systems: every other step
\* only adds to it, the death-cleanup systems all read the queue the main
\* pass left and delete nothing, that step deletes every queued entity, and
\* at the end of the tick the list and the bitset are empty.
C19_QueueConsumedOnce ==
    [][/\ ~MaintainStep => Extends(toBeRemoved, toBeRemoved')
       /\ DeathStep => toBeRemoved' = toBeRemoved /\ live' = live
       /\ (pc = "death" /\ done = Range(DeathSystems)) =>
             /\ MaintainStep
             /\ \A e \in Range(toBeRemoved.vec) :
                   IsAlive(e) /\ e[1] \notin live'
       /\ MaintainStep =>
             /\ done = Range(DeathSystems)
             /\ toBeRemoved'.vec = <<>> /\ toBeRemoved'.bitset = {}]_vars

\* a tick has ended in which queued entities were deleted after an asteroid
\* among them had been paid for by the mined-reward system
C19_Witness ==
    /\ pc = "input" /\ DOMAIN deletedLog # {}
    /\ toBeRemoved.vec = <<>> /\ toBeRemoved.bitset = {}
    /\ \A e \in DOMAIN deletedLog : e[1] \notin live
    /\ DOMAIN cleanupLog # {}

\* the ids of the entities whose lazy creation is queued
Pending == {lazy[k].ent[1] : k \in DOMAIN lazy}
\* the death-cleanup systems ran before the queued removals were applied,
\* the removals are applied and the storages hold nothing of a deleted id
RemovedAndCompacted ==
    /\ done = Range(DeathSystems)
    /\ live' = live \ Drained(toBeRemoved)
    /\ \A i \in Drained(toBeRemoved) :
          /\ i \notin DOMAIN transforms' /\ i \notin DOMAIN models'
          /\ i \notin DOMAIN colliders' /\ i \notin DOMAIN healths'

Attached(kind) ==
    CASE kind = "asteroid" ->
           {"transforms", "models", "bodies", "colliders", "asteroids",
            "healths"}
      [] kind = "missle" ->
           {"transforms", "models", "bodies", "colliders", "missles"}
      [] kind = "block" -> {"transforms", "models", "colliders", "blocks"}
      [] kind = "gadget" -> {"transforms", "models", "colliders", "gadgets"}
      [] kind = "floor" -> {"transforms", "models"}
\* the storages by name
Store ==
    [transforms |-> transforms, models |-> models, bodies |-> bodies,
     colliders |-> colliders, asteroids |-> asteroids, healths |-> healths,
     missles |-> missles, blocks |-> blocks, gadgets |-> gadgets]
\* id i has no component in any storage
Bare(store, i) == \A n \in DOMAIN store : i \notin DOMAIN store[n]

\* C21: an entity created lazily has no component in any storage for the
\* rest of the tick that created it, whatever the systems of that tick do;
\* the maintenance step that ends the tick attaches every component of its
\* builder, and no creation is pending when the next tick's systems start.
C21_LazyMaterialized ==
    [][/\ ~MaintainStep => \A i \in Pending' : Bare(Store', i)
       /\ MaintainStep =>
             \A k \in DOMAIN lazy :
                LET i == lazy[k].ent[1]
                IN i \in live' =>
                     \A n \in Attached(lazy[k].kind) :
                        /\ i \in DOMAIN Store'[n]
                        /\ Store'[n][i] = Components(lazy[k])[n]
       /\ pc' = "input" => lazy' = <<>>]_vars

\* a tick has ended that created a missile lazily: the missile has its
\* components and nothing is pending
C21_Witness ==
    /\ pc = "input" /\ lazy = <<>>
    /\ \E i \in insertedModels \cap live :
          \A n \in Attached("missle") : i \in DOMAIN Store[n]

(* ------------------------- the phases of a tick ------------------------ *)
\* the gameplay systems have all run
GameplayOver == done = Range(GameplaySystems)
\* the registrations of the Raycast World that belong to entity id i
RegistrationsOf(w, i) == {h \in DOMAIN w : w[h].ent = EntityOf(i)}

\* C22: a tick runs input, then every gameplay system, then physics, then
\* the raycast refresh, then the model sync, then maintenance, and nothing
\* else in between. Physics integrates the velocities as the gameplay
\* systems of the same tick left them, no gameplay system runs after it,
\* and the raycast refresh registers the positions physics produced.
C22_PhaseOrder ==
    [][/\ pc = "input" => pc' = "gameplay" /\ done' = {}
       /\ (pc = "gameplay" /\ ~GameplayOver) =>
             /\ pc' \in {"gameplay", "panic"}
             /\ transforms' = transforms /\ contacts' = contacts
             /\ raycastWorld' = raycastWorld
       /\ (pc = "gameplay" /\ GameplayOver) =>
             /\ pc' \in {"raycast", "panic"}
             /\ bodies' = bodies
             /\ \A i \in DOMAIN transforms \cap DOMAIN bodies :
                   transforms'[i] = Integrate(transforms[i], bodies[i])
       /\ pc = "raycast" =>
             /\ pc' \in {"models", "panic"}
             /\ transforms' = transforms /\ bodies' = bodies
             /\ pc' = "models" =>
                   \A i \in RaycastIds :
                      /\ RegistrationsOf(raycastWorld', i) # {}
                      /\ \A h \in RegistrationsOf(raycastWorld', i) :
                            raycastWorld'[h].pos = transforms[i]
       /\ pc = "models" =>
             /\ pc' = "death" /\ done' = {}
             /\ transforms' = transforms /\ raycastWorld' = raycastWorld
       /\ pc = "death" =>
             /\ pc' \in {"death", "input", "panic"}
             /\ pc' = "death" => transforms' = transforms
             /\ pc' = "input" => done = Range(DeathSystems)]_vars

\* the raycast refresh has run after physics moved a missile by the velocity
\* the missile system gave it in the same tick, and registered it there
C22_Witness ==
    /\ pc = "models"
    /\ \E i \in MissleIds \cap RaycastIds :
          /\ bodies[i] # Pos(0, 0)
          /\ \E h \in RegistrationsOf(raycastWorld, i) :
                raycastWorld[h].pos = transforms[i]

(* ------------------ the order of the gameplay systems ------------------ *)
\* what the gameplay systems write, as the tick finds it
GameplayStart ==
    [gens |-> gens, live |-> live, lazy |-> lazy, miners |-> miners,
     lines |-> lines, healths |-> healths, bodies |-> bodies,
     scales |-> scales, field |-> field, queue |-> toBeRemoved,
     ok |-> TRUE, panic |-> FALSE]

\* System::run of gameplay system name on w, with the raycast results hit
\* and the random draws spawn
GameplayStep(name, w, hit, spawn) ==
    CASE name = "miner" ->
           LET r == MinerRun(Ascending(DOMAIN transforms \cap DOMAIN miners),
                       [gens |-> w.gens, live |-> w.live, lazy |-> w.lazy,
                        miners |-> w.miners, ok |-> w.ok])
           IN [w EXCEPT !.gens = r.gens, !.live = r.live, !.lazy = r.lazy,
                        !.miners = r.miners, !.ok = r.ok]
      [] name = "laser" ->
           IF /\ LaserIds # {} /\ inputAction.kind = "Laser"
              /\ ~Has(transforms, inputAction.target)
           THEN [w EXCEPT !.panic = TRUE]
           ELSE LET r == LaserRun(Ascending(LaserIds), hit,
                            [lines |-> w.lines, healths |-> w.healths])
                IN [w EXCEPT !.lines = r.lines, !.healths = r.healths]
      [] name = "missle" ->
           IF \E i \in MissleIds :
                 /\ ~TargetDied(missles[i].target)
                 /\ \/ i \notin DOMAIN transforms
                    \/ ~Has(transforms, missles[i].target)
                    \/ i \notin DOMAIN bodies
           THEN [w EXCEPT !.panic = TRUE]
           ELSE LET r == MissleRun(Ascending(MissleIds),
                            [queue |-> w.queue, bodies |-> w.bodies])
                IN [w EXCEPT !.queue = r.queue, !.bodies = r.bodies]
      [] name = "health" ->
           [w EXCEPT !.queue = NoHealthRun(w.queue, w.healths)]
      [] name = "shrink" ->
           [w EXCEPT !.scales = ShrinkRun(w.scales, w.healths)]
      [] name = "field" ->
           IF \E e \in Range(SelectAlive(field.asteroids)) :
                 ~Has(transforms, e)
           THEN [w EXCEPT !.panic = TRUE]
           ELSE LET r == FieldRun([gens |-> w.gens, live |-> w.live,
                                   lazy |-> w.lazy, field |-> w.field,
                                   queue |-> w.queue, ok |-> w.ok], spawn)
                IN [w EXCEPT !.gens = r.gens, !.live = r.live,
                             !.lazy = r.lazy, !.field = r.field,
                             !.queue = r.queue, !.ok = r.ok]

RECURSIVE RunOrder(_, _, _, _)
\* the gameplay stage run in the given order
RunOrder(order, w, hit, spawn) ==
    IF order = <<>> \/ ~w.ok THEN w
    ELSE RunOrder(Tail(order), GameplayStep(Head(order), w, hit, spawn),
                  hit, spawn)

\* what a run of the gameplay stage decided: the component values, the
\* entities queued for removal, and the builders queued (the ids handed to
\* the new entities and the order of the queue's list left aside); a run
\* in which a system panics decides nothing, the process ends in it
Outcome(w) ==
    IF w.panic THEN [panic |-> TRUE]
    ELSE [panic |-> FALSE,
          miners |-> w.miners, lines |-> w.lines, healths |-> w.healths,
          bodies |-> w.bodies, scales |-> w.scales,
          tick |-> w.field.tick,
          roster |-> {e \in Range(w.field.asteroids) : e[1] \in live},
          spawned |-> Len(w.field.asteroids),
          queued |-> Range(w.queue.vec), bitset |-> w.queue.bitset,
          built |-> {[kind |-> b.kind, pos |-> b.pos, what |-> b.what,
                      target |-> b.target] : b \in Range(w.lazy)}]

\* the systems of left that may run next when the pairs <<a, b>> of before
\* say that a runs before b
MayRun(left, before) ==
    {s \in left : \A a \in left : <<a, s>> \notin before}

RECURSIVE Interleaved(_, _, _, _)
\* the worlds the gameplay stage can leave when its systems run in any
\* order that respects before: runs is the set of <<systems that have run,
\* world>> reached so far, and every step lets one more system run
Interleaved(runs, before, hit, spawn) ==
    LET all == Range(GameplaySystems)
        more == UNION {
                  {<<r[1] \cup {s}, GameplayStep(s, r[2], hit, spawn)>> :
                      s \in MayRun(all \ r[1], before)} :
                  r \in {q \in runs : q[1] # all /\ q[2].ok}}
    IN IF more = {} THEN {r[2] : r \in {q \in runs : q[1] = all}}
       ELSE Interleaved(more \cup {q \in runs : q[1] = all},
                        before, hit, spawn)

\* the random draws that can matter: the field draws only when it spawns
Draws == IF field.tick = 0 THEN Spawns ELSE {CHOOSE spawn \in Spawns : TRUE}

\* every order of the gameplay systems that respects before decides what
\* the dispatcher's order decides, whatever the raycasts and the random
\* draws return
SameOutcome(before) ==
    \A hit \in LaserRaycasts, spawn \in Draws :
       LET b == RunOrder(GameplaySystems, GameplayStart, hit, spawn)
       IN b.ok =>
            \A w \in Interleaved({<<{}, GameplayStart>>}, before, hit, spawn) :
               w.ok => Outcome(w) = Outcome(b)

\* a tick is about to run its gameplay systems
TickStart == pc = "gameplay" /\ done = {}

\* C23 as stated: from the state a tick starts in, every order of the
\* gameplay systems decides what the dispatcher's order decides.
C23_Original == TickStart => SameOutcome({})

\* C23 amended: every order of the gameplay systems that runs the laser
\* system before the health system and before the shrink system decides
\* what the dispatcher's order decides.
C23_OrderUpToLaserHealth ==
    TickStart => SameOutcome({<<"laser", "health">>, <<"laser", "shrink">>})

\* a tick starts in which the laser can take the last Health of its target
\* while a missile is in flight and the field is about to spawn
C23_Witness ==
    /\ TickStart /\ inputAction.kind = "Laser" /\ LaserIds # {}
    /\ Has(healths, inputAction.target)
    /\ healths[inputAction.target[1]] = LaserDamage
    /\ inputAction.target \in RaycastResults({})

(* --------------------- the order of the add calls ---------------------- *)
\* the entities that exist or have existed
Handles == {<<i, g>> : i \in Ids, g \in 1 .. (MaxCreated + 1)} \cap
           {h \in Ids \X (1 .. (MaxCreated + 1)) : h[2] <= gens[h[1]]}
\* the calls es made in the order p
Reordered(es, p) == [k \in DOMAIN es |-> es[p[k]]]
\* what the tick does with queue q: the entities the drain deletes and the
\* entities each death-cleanup system visits
Decided(q) ==
    [deleted |-> Range(q.vec),
     ids |-> Drained(q),
     mined |-> q.bitset \cap DOMAIN asteroids \cap DOMAIN healths,
     model |-> q.bitset \cap DOMAIN models,
     raycast |-> q.bitset \cap DOMAIN colliders]
\* the main pass of a tick is over and the death dispatcher has not started
BeforeCleanup == pc = "death" /\ done = {}

\* C24: take the add calls the systems of a tick made, and one more call
\* for any entity (queued already, alive or dead): made in any order, the
\* calls leave a queue with the same entities to delete and the same
\* entities for each cleanup system to visit.
C24_AddOrderIndependent ==
    BeforeCleanup =>
       \A e \in Handles :
          LET calls == Append(toBeRemoved.vec, e)
          IN \A p \in Permutations(DOMAIN calls) :
                Decided(AddAll(Clear(toBeRemoved), Reordered(calls, p)))
                   = Decided(AddAll(Clear(toBeRemoved), calls))

\* the main pass of a tick has queued a missile and an asteroid
C24_Witness ==
    /\ BeforeCleanup
    /\ \E a \in DOMAIN asteroids, m \in DOMAIN missles :
          /\ EntityOf(a) \in Range(toBeRemoved.vec)
          /\ EntityOf(m) \in Range(toBeRemoved.vec)

(* ------------- lazily created entities, physics and raycasts ----------- *)
\* the step of the physics system and the step of the raycast refresh
PhysicsStep == pc = "gameplay" /\ GameplayOver
RaycastStep == pc = "raycast"
\* the entities whose components the last maintenance step attached
Fresh == insertedModels \cap live
\* a contact event of evs names the entity of id i
InContact(evs, i) ==
    \E k \in DOMAIN evs : evs[k][1][1] = i \/ evs[k][2][1] = i

\* C25: while the creation of an entity is queued, the entity is not in the
\* tick's physics world, no contact event names it, no contact queues it
\* for removal and the Raycast World holds no registration of it. In the
\* tick after, physics integrates it, registers it and reports its
\* contacts, and the raycast refresh registers it, for the first time.
C25_LazyNotObserved ==
    [][/\ \A i \in Pending : RegistrationsOf(raycastWorld', i) = {}
       /\ \A i \in Pending' :
             /\ RegistrationsOf(raycastWorld', i) = {}
             /\ i \notin DOMAIN colliders'
       /\ PhysicsStep =>
             \A i \in Pending :
                /\ i \notin Registered /\ i \notin DOMAIN transforms'
                /\ ~InContact(contacts', i)
                /\ EntityOf(i) \notin Range(toBeRemoved'.vec)
       /\ PhysicsStep =>
             \A i \in Fresh \cap DOMAIN colliders :
                /\ i \in Registered
                /\ i \in DOMAIN bodies =>
                      transforms'[i] = Integrate(transforms[i], bodies[i])
                /\ \A j \in Registered \ {i} :
                      (/\ CanInteract(PhysicsGroups(colliders[i]),
                                      PhysicsGroups(colliders[j]))
                       /\ Touch(transforms'[i], transforms'[j]))
                      => \E k \in DOMAIN contacts' :
                            {contacts'[k][1], contacts'[k][2]}
                               = {EntityOf(i), EntityOf(j)}
       /\ RaycastStep =>
             \A i \in Fresh \cap DOMAIN colliders :
                /\ RegistrationsOf(raycastWorld, i) = {}
                /\ pc' = "models" =>
                      Cardinality(RegistrationsOf(raycastWorld', i)) = 1]_vars

\* a missile created lazily in the tick before has been moved by physics,
\* has hit its asteroid and has been registered by the raycast refresh
C25_Witness ==
    /\ pc = "models"
    /\ \E i \in Fresh \cap DOMAIN missles :
          /\ InContact(contacts, i)
          /\ RegistrationsOf(raycastWorld, i) # {}

(* ---------------------- integration, then contacts --------------------- *)
\* the registered pairs the pair filter admits that touch at the poses tr
TouchingAt(tr) ==
    {pair \in SUBSET Registered :
        \E a, b \in pair :
           /\ a # b /\ pair = {a, b}
           /\ CanInteract(PhysicsGroups(colliders[a]),
                          PhysicsGroups(colliders[b]))
           /\ Touch(tr[a], tr[b])}
\* the pairs of ids the contact events evs name
PairsOf(evs) == {{evs[k][1][1], evs[k][2][1]} : k \in DOMAIN evs}

\* C26: physics advances every rigid body by its velocity and only then
\* registers the colliders: the contact events of the tick are those of the
\* pairs that touch at the advanced poses, one contact-started event per
\* pair and no other event, and what physics queues for removal or heats is
\* named in one of them: nothing else has an effect.
C26_ContactsAfterIntegration ==
    [][PhysicsStep =>
         /\ \A i \in DOMAIN transforms :
               transforms'[i] = IF i \in DOMAIN bodies
                                THEN Integrate(transforms[i], bodies[i])
                                ELSE transforms[i]
         /\ PairsOf(contacts') = TouchingAt(transforms')
         /\ Len(contacts') = Cardinality(TouchingAt(transforms'))
         /\ \A e \in Range(toBeRemoved'.vec) \ Range(toBeRemoved.vec) :
               InContact(contacts', e[1])
         /\ \A i \in DOMAIN ships :
               ships'[i] # ships[i] =>
                  \E b \in DOMAIN blocks :
                     blocks[b].ship = EntityOf(i) /\ InContact(contacts', b)
         /\ contacts' = <<>> =>
               toBeRemoved' = toBeRemoved /\ ships' = ships]_vars

\* the pose of id i before the integration of the physics step just taken
PoseBefore(i) ==
    IF i \in DOMAIN bodies
    THEN Pos(transforms[i].x - bodies[i].x, transforms[i].y - bodies[i].y)
    ELSE transforms[i]

\* physics has reported the contact of a pair that the integration brought
\* together: it did not touch at the poses before
C26_Witness ==
    /\ pc = "raycast"
    /\ \E k \in DOMAIN contacts :
          LET a == contacts[k][1][1]
              b == contacts[k][2][1]
          IN ~Touch(PoseBefore(a), PoseBefore(b))

(* ------------------------- the raycast handles ------------------------- *)
\* the collider of id i holds a raycast handle
Handled(c, i) == c[i].raycast_id # NoHandle
\* the step of the removal cleanup of the Raycast World
RaycastCleanupStep == pc = "death" /\ "raycast" \in done' \ done

\* the handles of every collider agree with the Raycast World: both handles
\* are set or neither is, an entity has at most one registration, and it
\* has one iff its collider holds the handle, which is that registration's
HandlesAgree ==
    \A i \in DOMAIN colliders :
       /\ Handled(colliders, i) <=> colliders[i].model_id
       /\ Cardinality(RegistrationsOf(raycastWorld, i)) <= 1
       /\ Handled(colliders, i) <=> RegistrationsOf(raycastWorld, i) # {}
       /\ Handled(colliders, i) =>
             RegistrationsOf(raycastWorld, i) = {colliders[i].raycast_id}

\* C27: the raycast refresh adds a registration for a collider without a
\* handle and stores its handle, and moves the registration of a collider
\* with a handle to the entity's position, in place; the handles always
\* agree with the Raycast World; only the removal cleanup resets a handle,
\* at most once per entity, and the entity is deleted in that tick, so it
\* never gets a handle again.
C27_RaycastHandles ==
    [][/\ HandlesAgree'
       /\ (RaycastStep /\ pc' = "models") =>
             /\ \A i \in RaycastIds :
                   IF Handled(colliders, i)
                   THEN /\ colliders'[i] = colliders[i]
                        /\ raycastWorld'[colliders[i].raycast_id] =
                              [raycastWorld[colliders[i].raycast_id]
                                 EXCEPT !.pos = transforms[i]]
                   ELSE /\ Handled(colliders', i)
                        /\ colliders'[i].raycast_id \notin DOMAIN raycastWorld
                        /\ raycastWorld'[colliders'[i].raycast_id].pos
                              = transforms[i]
             /\ DOMAIN raycastWorld' =
                   DOMAIN raycastWorld
                     \cup {colliders'[i].raycast_id :
                             i \in {j \in RaycastIds : ~Handled(colliders, j)}}
       /\ \A i \in DOMAIN colliders \cap DOMAIN colliders' :
             (Handled(colliders, i) /\ ~Handled(colliders', i)) =>
                /\ RaycastCleanupStep
                /\ i \in toBeRemoved.bitset
                /\ Count(cleanupLog', <<"raycast", EntityOf(i)>>) = 1
       /\ MaintainStep =>
             \A i \in DOMAIN colliders :
                ~Handled(colliders, i) => i \notin live']_vars

\* the removal cleanup has reset the handles of a queued entity, and the
\* refresh of the same tick left the registration of a moving entity at
\* the position physics gave it
C27_Witness ==
    /\ pc = "death" /\ "raycast" \in done
    /\ \E i \in DOMAIN colliders \cap toBeRemoved.bitset :
          /\ ~Handled(colliders, i) /\ ~colliders[i].model_id
          /\ Count(cleanupLog, <<"raycast", EntityOf(i)>>) = 1
    /\ \E j \in DOMAIN colliders \cap DOMAIN bodies :
          /\ bodies[j] # Pos(0, 0) /\ Handled(colliders, j)
          /\ raycastWorld[colliders[j].raycast_id].pos = transforms[j]
          /\ PoseBefore(j) # transforms[j]

(* ------------------- registrations of deleted entities ----------------- *)
\* a maintenance step has just ended (or the program has just started)
AfterMaintain == pc = "input"
\* the hitbox proxy instances of the MeshManager
HitboxProxies == {m \in DOMAIN meshModels : m[1] = "hitbox"}

\* C28: after every maintenance step every registration of the Raycast
\* World is that of a live entity whose collider holds its handle, every
\* hitbox proxy is that of a live entity whose collider holds it, and no
\* raycast, whatever its groups, returns a deleted entity.
C28_NoDanglingRegistration ==
    AfterMaintain =>
       /\ \A h \in DOMAIN raycastWorld :
             LET e == raycastWorld[h].ent
             IN /\ IsAlive(e) /\ e[1] \in DOMAIN colliders
                /\ colliders[e[1]].raycast_id = h
       /\ \A m \in HitboxProxies :
             /\ m[2] \in live /\ m[3] = gens[m[2]] /\ meshModels[m] = 1
             /\ m[2] \in DOMAIN colliders /\ colliders[m[2]].model_id
       /\ \A whitelist \in SUBSET AllGroups :
             \A e \in RaycastResults(whitelist) \ {NoEntity} : IsAlive(e)

\* a maintenance step has deleted an entity whose registration and proxy
\* the cleanup had removed, and other entities are still registered
C28_Witness ==
    /\ AfterMaintain /\ DOMAIN raycastWorld # {}
    /\ \E e \in DOMAIN deletedLog :
          /\ ~IsAlive(e)
          /\ Count(cleanupLog, <<"raycast", e>>) = 1
          /\ Count(cleanupLog, <<"hitbox", e>>) = 1

(* ------------------------- render model instances ---------------------- *)
\* the render model instances of the MeshManager
ModelInstances(meshes) == {m \in DOMAIN meshes : m[1] = "model"}
\* the step of the model sync and the step of the model cleanup
ModelStep == pc = "models"
RemoveModelStep == pc = "death" /\ IsNext(DeathSystems, "model")

\* C29: the instance of a queued entity's model is removed by the model
\* cleanup of the tick that deletes the entity, once; an instance goes away
\* in no other step; update_model and remove_model are only called on
\* instances that exist; and after the maintenance step every instance is
\* that of a live entity whose model holds it.
C29_ModelRemovedOnce ==
    [][/\ ModelStep =>
             /\ pc' = "death"
             /\ \A i \in UpdatedModels : Count(meshModels', ModelOf(i)) = 1
       /\ RemoveModelStep =>
             /\ pc' = "death"
             /\ \A i \in DOMAIN models :
                   (models[i].model_id /\ i \in toBeRemoved.bitset) =>
                      /\ Count(meshModels, ModelOf(i)) = 1
                      /\ Count(meshModels', ModelOf(i)) = 0
                      /\ ~models'[i].model_id
                      /\ Count(cleanupLog', <<"model", EntityOf(i)>>) = 1
       /\ \A m \in ModelInstances(meshModels) \ ModelInstances(meshModels') :
             /\ RemoveModelStep
             /\ m = ModelOf(m[2]) /\ m[2] \in toBeRemoved.bitset
       /\ MaintainStep =>
             \A e \in Range(toBeRemoved.vec) :
                e[1] \in DOMAIN models =>
                   /\ Count(cleanupLog, <<"model", e>>) = 1
                   /\ Count(meshModels', <<"model", e[1], e[2]>>) = 0
       /\ pc' = "input" =>
             \A m \in ModelInstances(meshModels') :
                /\ m[2] \in live' /\ m[3] = gens'[m[2]]
                /\ m[2] \in DOMAIN models' /\ models'[m[2]].model_id
                /\ meshModels'[m] = 1]_vars

\* a tick has ended that deleted an entity whose model instance the model
\* sync had updated and the cleanup had removed
C29_Witness ==
    /\ pc = "input"
    /\ \E e \in DOMAIN deletedLog :
          /\ ~IsAlive(e)
          /\ Count(cleanupLog, <<"model", e>>) = 1
          /\ Count(meshModels, <<"model", e[1], e[2]>>) = 0
    /\ ModelInstances(meshModels) # {}

(* --------------------- rays after an entity has moved ------------------ *)
\* the cells that hold a transform or a registration, and the rays that
\* cross one or two of them
ProbeCells ==
    {transforms[i] : i \in DOMAIN transforms}
      \cup {raycastWorld[h].pos : h \in DOMAIN raycastWorld}
Rays == {<<c>> : c \in ProbeCells} \cup (ProbeCells \X ProbeCells)
\* the registered entities the refresh finds at another position than the
\* one they are registered at
MovedIds ==
    {i \in RaycastIds :
        /\ Handled(colliders, i)
        /\ colliders[i].raycast_id \in DOMAIN raycastWorld
        /\ raycastWorld[colliders[i].raycast_id].pos # transforms[i]}
\* no other object that the query admits lies on the ray before or at pos
Unobstructed(w, whitelist, ray, pos, e) ==
    \A k \in DOMAIN ray :
       (\A j \in 1 .. (k - 1) : ray[j] # pos) =>
          RaycastAlong(w, whitelist, <<ray[k]>>) \subseteq {NoEntity, e}

\* C30: when the refresh finds a registered entity at a new position, the
\* rays of every query that admits it return it afterwards exactly where
\* it is now: a ray that crosses its new position unobstructed returns the
\* entity, a ray that does not cross the new position (one through the old
\* position only, for instance) does not. Before the refresh the rays
\* found it at the old position.
C30_RaysFollowTransform ==
    [][(RaycastStep /\ pc' = "models") =>
         \A i \in MovedIds :
            LET e == EntityOf(i)
                old == raycastWorld[colliders[i].raycast_id].pos
                new == transforms[i]
            IN \A whitelist \in SUBSET AllGroups :
                  e \in RaycastResults(whitelist) =>
                    /\ e \in RaycastAlong(raycastWorld, whitelist, <<old>>)
                    /\ e \notin RaycastAlong(raycastWorld, whitelist, <<new>>)
                    /\ e \in RaycastAlong(raycastWorld', whitelist, <<new>>)
                    /\ e \notin RaycastAlong(raycastWorld', whitelist, <<old>>)
                    /\ \A ray \in Rays :
                          LET found == RaycastAlong(raycastWorld', whitelist,
                                                    ray)
                          IN /\ e \in found =>
                                   \E k \in DOMAIN ray : ray[k] = new
                             /\ (/\ \E k \in DOMAIN ray : ray[k] = new
                                 /\ Unobstructed(raycastWorld', whitelist,
                                                 ray, new, e))
                                => found = {e}]_vars

\* the refresh has moved the registration of an asteroid that was
\* registered in an earlier tick: a ray through its position returns it, a
\* ray through the position it left does not
C30_Witness ==
    /\ pc = "models"
    /\ \E i \in (DOMAIN asteroids \cap RaycastIds) \ insertedModels :
          /\ PoseBefore(i) # transforms[i]
          /\ EntityOf(i) \in RaycastAlong(raycastWorld, {}, <<transforms[i]>>)
          /\ EntityOf(i) \notin RaycastAlong(raycastWorld, {}, <<PoseBefore(i)>>)

(* --------------------------- raycast queries --------------------------- *)
\* the states in which the program issues raycasts: the pointer's between
\* two ticks and the laser's
RaycastIssued == pc = "input" \/ LaserTurn
\* the whitelists of the program's queries (the laser's, the pointer's for
\* mining and for building) and two that no collider and two groups match
Whitelists == {{}, {ASTEROID}, {SHIP}, {RAYCAST}, {ASTEROID, MISSLE}}
\* the registrations whose entity's collider group the whitelist admits
Qualifying(whitelist) ==
    {h \in DOMAIN raycastWorld :
        \/ whitelist = {}
        \/ colliders[raycastWorld[h].ent[1]].group \in whitelist}
\* the qualifying registrations in the k-th cell of the ray
OnRay(whitelist, ray, k) ==
    {h \in Qualifying(whitelist) : raycastWorld[h].pos = ray[k]}

\* C31: a raycast returns an entity registered in the first cell of the ray
\* that holds a registration whose collider group is in the whitelist (of
\* any group when the whitelist is empty), never an entity of a group
\* outside a non-empty whitelist, and nothing when no cell of the ray holds
\* a qualifying registration.
C31_RaycastWhitelist ==
    RaycastIssued =>
       \A whitelist \in Whitelists, ray \in Rays :
          LET found == RaycastAlong(raycastWorld, whitelist, ray)
          IN /\ found # {}
             /\ (\A k \in DOMAIN ray : OnRay(whitelist, ray, k) = {})
                   => found = {NoEntity}
             /\ \A k \in DOMAIN ray :
                   (/\ OnRay(whitelist, ray, k) # {}
                    /\ \A j \in 1 .. (k - 1) : OnRay(whitelist, ray, j) = {})
                   => found \subseteq
                        {raycastWorld[h].ent : h \in OnRay(whitelist, ray, k)}
             /\ \A e \in found \ {NoEntity} :
                   whitelist # {} => colliders[e[1]].group \in whitelist

\* a ray crosses a ship block and then an asteroid: restricted to asteroids
\* it returns the asteroid, unrestricted it returns the block
C31_Witness ==
    /\ RaycastIssued
    /\ \E ray \in Rays :
          /\ Len(ray) = 2
          /\ \E e \in RaycastAlong(raycastWorld, {ASTEROID}, ray) :
                e # NoEntity /\ Has(asteroids, e)
          /\ \E e \in RaycastAlong(raycastWorld, {}, ray) :
                e # NoEntity /\ Has(blocks, e)

MinerTurn == pc = "gameplay" /\ IsNext(GameplaySystems, "miner")
\* the miners whose counter is above TOTAL_TIME while the action is Mining
Firing ==
    {i \in DOMAIN miners \cap DOMAIN transforms :
        miners[i].shoot_time > MinerTotalTime /\ inputAction.kind = "Mining"}
\* the missile creations queued in lz
MissleEntries(lz) == {k \in DOMAIN lz : lz[k].kind = "missle"}

FieldTurn == pc = "gameplay" /\ IsNext(GameplaySystems, "field")
\* the live entities of the field's roster
LiveRoster == {e \in Range(field.asteroids) : IsAlive(e)}
\* the entities a step adds to the Removal Queue
NewlyQueued == Range(toBeRemoved'.vec) \ Range(toBeRemoved.vec)

\* C34: when the field system runs, every live entity of its roster has a
\* Transform, so the system does not fail; it drops the dead entities from
\* the roster and keeps the live ones in their order; after it every live
\* roster asteroid whose |x| exceeds x_range is in the Removal Queue, and
\* all it adds to the queue are such asteroids.
C34_FieldPrunesThenQueues ==
    [][FieldTurn =>
         /\ pc' = "gameplay"
         /\ \A e \in LiveRoster : Has(transforms, e)
         /\ \E n \in {Len(field'.asteroids), Len(field'.asteroids) - 1} :
               /\ n >= 0
               /\ SubSeq(field'.asteroids, 1, n)
                     = SelectSeq(field.asteroids, LAMBDA e : IsAlive(e))
               /\ n < Len(field'.asteroids) =>
                     /\ field.tick = 0
                     /\ field'.asteroids[n + 1] = lazy'[Len(lazy')].ent
         /\ \A e \in LiveRoster :
               Abs(transforms[e[1]].x) > XRange
                  => e \in Range(toBeRemoved'.vec)
         /\ \A e \in NewlyQueued :
               /\ e \in LiveRoster
               /\ Abs(transforms[e[1]].x) > XRange]_vars

\* the field system has queued a roster asteroid that drifted out of range
C34_Witness ==
    /\ pc = "gameplay" /\ "field" \in done
    /\ \E e \in Range(field.asteroids) \cap Range(toBeRemoved.vec) :
          Has(transforms, e) /\ Abs(transforms[e[1]].x) > XRange

(* ---------------------------- the mined reward ------------------------- *)
\* the step of the mined system
MinedStep == pc = "death" /\ IsNext(DeathSystems, "mined")
\* the queued asteroids of an item whose Health is 0
MinedOf(item) ==
    {i \in toBeRemoved.bitset \cap DOMAIN asteroids \cap DOMAIN healths :
        healths[i] = 0 /\ asteroids[i] = item}

\* C35: the mined system adds to the inventory exactly 5 units of its item
\* for every queued asteroid whose Health is 0 and nothing for a queued
\* asteroid whose Health is above 0, whatever queued it (a missile contact,
\* a block contact, the field's range); no other step of a tick changes the
\* inventory.
C35_RewardIffMined ==
    [][/\ MinedStep =>
             /\ \A item \in GameItem :
                   inventory'[item] =
                      inventory[item] + 5 * Cardinality(MinedOf(item))
             /\ \A i \in toBeRemoved.bitset \cap DOMAIN asteroids :
                   LET e == EntityOf(i)
                   IN Count(minedLog', e) =
                         IF healths[i] = 0 THEN 1 ELSE 0
       /\ ~MinedStep => inventory' = inventory]_vars

\* after an asteroid was mined and rewarded in an earlier tick, the mined
\* system has passed over an asteroid that a contact queued while it had
\* Health left, and has granted nothing for it
C35_Witness ==
    /\ pc = "death" /\ "mined" \in done
    /\ Stock(inventory) = 5
    /\ \E i \in toBeRemoved.bitset \cap DOMAIN asteroids :
          /\ healths[i] > 0
          /\ InContact(contacts, i)
          /\ EntityOf(i) \notin DOMAIN minedLog

(* ------------------------ the price, on its own ------------------------ *)
\* the width of an item amount (u32 in the code), and the amounts it holds
StockBits == 3
Amounts == 0 .. (2 ^ StockBits - 1)
\* the largest amount of a cost entry, and the most entries of a cost list
MaxCostAmount == 2
MaxCostLen == 2
\* Block.cost for any block: the lists of up to MaxCostLen item stacks
CostStacks ==
    {Stack(item, amount) : item \in GameItem, amount \in 1 .. MaxCostAmount}
CostLists == UNION {[1 .. n -> CostStacks] : n \in 0 .. MaxCostLen}

RECURSIVE Underflows(_, _)
\* `*amount -= delta` of some entry of the list meets an amount below delta
Underflows(inv, cost) ==
    /\ cost # <<>>
    /\ \/ inv[Head(cost).item] < Head(cost).amount
       \/ Underflows(Remove(inv, Head(cost).item, Head(cost).amount),
                     Tail(cost))
\* the amounts a build without overflow checks leaves: u32 wraps
WrappedStock(inv) == [item \in GameItem |-> inv[item] % (2 ^ StockBits)]

\* Inventory::new, then some rewards
InitCost ==
    /\ InitWorld
    /\ healths = EmptyFn
    /\ inventory \in [GameItem -> 0 .. MaxCostAmount]
    /\ pc = "cost"
    /\ done = {}
    /\ call = [op |-> "new", cost |-> <<>>, before |-> inventory]

\* inventory.add(item, delta), within the width of an amount
AddCall ==
    /\ pc = "cost"
    /\ \E item \in GameItem, delta \in 1 .. MaxCostAmount :
          /\ inventory[item] + delta \in Amounts
          /\ inventory' = [inventory EXCEPT ![item] = @ + delta]
          /\ call' = [op |-> "add", cost |-> <<Stack(item, delta)>>,
                      before |-> inventory]
    /\ UNCHANGED <<gens, live, lazy, storages, field, toBeRemoved,
                   raycastWorld, meshModels, insertedModels, inputAction, pc,
                   done, contacts, cleanupLog, deletedLog, minedLog>>

\* the price check of a gadget build and the deduction that follows it, for
\* any cost list: an underflowing `-=` panics (overflow checks on) or wraps
PayCall ==
    /\ pc = "cost"
    /\ \E cost \in CostLists :
          IF Unaffordable(inventory, cost)
          THEN /\ inventory' = inventory
               /\ pc' = pc
               /\ call' = [op |-> "break", cost |-> cost, before |-> inventory]
          ELSE /\ call' = [op |-> "paid", cost |-> cost, before |-> inventory]
               /\ IF Underflows(inventory, cost)
                  THEN \/ pc' = "panic" /\ inventory' = inventory
                       \/ /\ pc' = pc
                          /\ inventory' = WrappedStock(Deduct(inventory, cost))
                  ELSE pc' = pc /\ inventory' = Deduct(inventory, cost)
    /\ UNCHANGED <<gens, live, lazy, storages, field, toBeRemoved,
                   raycastWorld, meshModels, insertedModels, inputAction,
                   done, contacts, cleanupLog, deletedLog, minedLog>>

NextCost ==
    \/ AddCall
    \/ PayCall

SpecCost == InitCost /\ [][NextCost]_vars

\* C36: when the price check of a cost list passes, the deduction of all its
\* entries underflows no amount: it does not fail, and it leaves of each item
\* the amount before less the entries of that item, which is not negative;
\* an add raises one amount by its delta, and a failed check changes nothing
C36_DeductionNeverUnderflows ==
    [][/\ call'.op = "paid" =>
             /\ pc' # "panic"
             /\ \A item \in GameItem :
                   /\ inventory[item] - AmountOf(call'.cost, item) >= 0
                   /\ inventory'[item] =
                          inventory[item] - AmountOf(call'.cost, item)
       /\ call'.op = "add" =>
             \A item \in GameItem :
                inventory'[item] = inventory[item] + AmountOf(call'.cost, item)
       /\ call'.op = "break" => inventory' = inventory]_vars

\* the ids a step deletes
Deleted == live \ live'
\* the maintenance is about to drain the queue
DrainTurn == pc = "death" /\ Barrier(DeathSystems)

CreatedIds == Ids \ StaticIds
\* the run has come to the model's creation bound: no system panicked and
\* the next system cannot run for want of an id
Stalled ==
    /\ FreeIds(gens, live) = {}
    /\ \/ MinerTurn /\ Firing # {}
       \/ FieldTurn /\ field.tick = 0
\* the positions of ECS::update
Positions == {"input", "gameplay", "physics", "raycast", "models", "death"}
\* the dispatchers run the next system, and the main loop the next update:
\* the position in ECS::update moves on unless a system has panicked (or the
\* model's creation bound is reached)
Advance ==
    /\ pc # "panic" /\ ~Stalled
    /\ pc' \in Positions \cup {"panic"}
    /\ done' \in {{}, done} \cup
                 {done \cup {s} : s \in Range(GameplaySystems)
                                      \cup Range(DeathSystems)}
    /\ <<pc, done>>' # <<pc, done>>
\* the main loop calls ECS::update once per frame for as long as the program
\* runs, and a dispatcher runs every system of its stage
SpecLive == Init /\ [][Next]_vars /\ WF_<<pc, done>>(Advance)
\* id i is a live asteroid of the field's roster, a live mining missile
FieldAsteroid(i) == i \in live /\ EntityOf(i) \in Range(field.asteroids)
LiveMissle(i) == i \in live /\ i \in DOMAIN missles

InitGame == Init \/ InitBuild
NextGame == Next \/ NextBuild
SpecGame == InitGame /\ [][NextGame]_vars

\* the heat of ship s
Heat(s) == ships[s].heat

GadgetAsteroidEvent(ev) ==
    /\ HasComponent(ev[1], ev[2], gadgets)
    /\ HasComponent(ev[1], ev[2], asteroids)
    /\ ~HasComponent(ev[1], ev[2], blocks)
\* the asteroid of a contact event with an asteroid
AsteroidOf(ev) == IF Has(asteroids, ev[1]) THEN ev[1] ELSE ev[2]
\* the contact events that make the physics system act on entity e
Acting(evs, e) ==
    {k \in DOMAIN evs :
        /\ InEvent(evs[k], e)
        /\ BlockAsteroidEvent(evs[k]) \/ MissleAsteroidEvent(evs[k])}

====
